---- MODULE Spec2Model ----
(***************************************************************************)
(* A model of the key-event core of obsidian-latex-suite (src/src/main.ts):*)
(* handleKeydown and the handlers it routes a key through, the pending     *)
(* expansion queue, the tabstop batch and the update listener.             *)
(*                                                                         *)
(* Text is a TLA+ string; offsets are 0-based and ranges half-open, as in  *)
(* the source.                                                             *)
(***************************************************************************)
EXTENDS Integers, Sequences, FiniteSets, TLC

Min(a, b) == IF a <= b THEN a ELSE b

Max(a, b) == IF a >= b THEN a ELSE b

(***************************************************************************)
(* String primitives of the host language and of the editor state.         *)
(***************************************************************************)

\* view.state.sliceDoc(a, b) / Text.sliceString(a, b): out-of-range offsets clamp
SliceDoc(s, a, b) ==
    LET a1 == Max(0, Min(a, Len(s)))
        b1 == Max(0, Min(b, Len(s)))
    IN IF a1 >= b1 THEN "" ELSE SubSeq(s, a1 + 1, b1)

\* String.prototype.slice(a, b): a negative offset counts from the end
JSSlice(s, a, b) ==
    LET a1 == IF a < 0 THEN Max(Len(s) + a, 0) ELSE Min(a, Len(s))
        b1 == IF b < 0 THEN Max(Len(s) + b, 0) ELSE Min(b, Len(s))
    IN IF a1 >= b1 THEN "" ELSE SubSeq(s, a1 + 1, b1)

\* String.prototype.slice(a)
JSSliceFrom(s, a) == JSSlice(s, a, Len(s))

\* String.prototype.charAt(i)
CharAt(s, i) == IF i >= 0 /\ i < Len(s) THEN SubSeq(s, i + 1, i + 1) ELSE ""

\* s.slice(i, i + sub.length) === sub
StartsAt(s, i, sub) == i >= 0 /\ SliceDoc(s, i, i + Len(sub)) = sub

\* String.prototype.contains / includes
Contains(s, sub) == \E i \in 0..Len(s) : StartsAt(s, i, sub)

\* String.prototype.indexOf(sub, from), -1 when absent
IndexOf(s, sub, from) ==
    LET hits == {i \in Max(0, from)..Len(s) : StartsAt(s, i, sub)}
    IN IF hits = {} THEN -1 ELSE CHOOSE i \in hits : \A j \in hits : i <= j

\* String.prototype.lastIndexOf(sub, from), -1 when absent
LastIndexOf(s, sub, from) ==
    LET hits == {i \in 0..Min(from, Len(s)) : StartsAt(s, i, sub)}
    IN IF hits = {} THEN -1 ELSE CHOOSE i \in hits : \A j \in hits : i >= j

\* String.prototype.endsWith
EndsWith(s, sub) == Len(sub) <= Len(s) /\ StartsAt(s, Len(s) - Len(sub), sub)

RECURSIVE TrimEnd(_)
\* String.prototype.trimEnd
TrimEnd(s) ==
    IF Len(s) > 0 /\ CharAt(s, Len(s) - 1) \in {" ", "\n"}
    THEN TrimEnd(SubSeq(s, 1, Len(s) - 1))
    ELSE s

RECURSIVE TrimStart(_)
\* String.prototype.trimStart
TrimStart(s) ==
    IF Len(s) > 0 /\ CharAt(s, 0) \in {" ", "\n"}
    THEN TrimStart(SubSeq(s, 2, Len(s)))
    ELSE s

\* String.prototype.trim
Trim(s) == TrimStart(TrimEnd(s))

RECURSIVE GetSubstitution(_, _, _, _)
\* The replacement patterns a replace/replaceAll replacement string is expanded by:
\* $$ is a dollar, $& the matched text, $` the text before it, $' the text after it
GetSubstitution(repl, matched, before, after) ==
    IF repl = "" THEN ""
    ELSE IF CharAt(repl, 0) = "$" /\ CharAt(repl, 1) = "$"
         THEN "$" \o GetSubstitution(JSSliceFrom(repl, 2), matched, before, after)
    ELSE IF CharAt(repl, 0) = "$" /\ CharAt(repl, 1) = "&"
         THEN matched \o GetSubstitution(JSSliceFrom(repl, 2), matched, before, after)
    ELSE IF CharAt(repl, 0) = "$" /\ CharAt(repl, 1) = "`"
         THEN before \o GetSubstitution(JSSliceFrom(repl, 2), matched, before, after)
    ELSE IF CharAt(repl, 0) = "$" /\ CharAt(repl, 1) = "'"
         THEN after \o GetSubstitution(JSSliceFrom(repl, 2), matched, before, after)
    ELSE CharAt(repl, 0) \o GetSubstitution(JSSliceFrom(repl, 1), matched, before, after)

\* String.prototype.replace with a string pattern: the first occurrence only
JSReplace(s, pat, repl) ==
    LET i == IndexOf(s, pat, 0)
    IN IF i = -1 THEN s
       ELSE SliceDoc(s, 0, i)
            \o GetSubstitution(repl, pat, SliceDoc(s, 0, i), JSSliceFrom(s, i + Len(pat)))
            \o JSSliceFrom(s, i + Len(pat))

RECURSIVE ReplaceAllFrom(_, _, _, _)
ReplaceAllFrom(s, pat, repl, from) ==
    LET i == IndexOf(s, pat, from)
    IN IF i = -1 \/ from > Len(s) THEN JSSliceFrom(s, from)
       ELSE SliceDoc(s, from, i)
            \o GetSubstitution(repl, pat, SliceDoc(s, 0, i), JSSliceFrom(s, i + Len(pat)))
            \o ReplaceAllFrom(s, pat, repl, i + Max(Len(pat), 1))

\* String.prototype.replaceAll with a non-empty string pattern: every occurrence,
\* left to right, the replacement string expanded at each
JSReplaceAll(s, pat, repl) == ReplaceAllFrom(s, pat, repl, 0)

(***************************************************************************)
(* new RegExp(source) and RegExp.prototype.exec, for the pattern syntax   *)
(* the modelled snippets use: literal characters, \d, \x (an escaped       *)
(* character), [x-y], ".", one level of capture groups, the quantifier +   *)
(* on a single item, and $ (end of input).  A malformed pattern throws.    *)
(***************************************************************************)

\* Characters in code-point order, for [x-y]
CodePoints == "$()+-/0123456789ABCDEFGHIJKLMNOPQRSTUVWXYZ[\\]^_abcdefghijklmnopqrstuvwxyz{|}"

InClass(c, cls) ==
    CASE cls.t = "lit"   -> c = cls.c
      [] cls.t = "digit" -> c # "" /\ Contains("0123456789", c)
      [] cls.t = "any"   -> c # "" /\ c # "\n"
      [] cls.t = "range" -> /\ c # ""
                            /\ IndexOf(CodePoints, c, 0) # -1
                            /\ IndexOf(CodePoints, cls.lo, 0) <= IndexOf(CodePoints, c, 0)
                            /\ IndexOf(CodePoints, c, 0) <= IndexOf(CodePoints, cls.hi, 0)

RegExpInvalid == [ok |-> FALSE, items |-> <<>>, ngroups |-> 0]

Item(cls, g) == [k |-> "cls", cls |-> cls, g |-> g, q |-> "1"]

RECURSIVE RegExpParseFrom(_, _, _, _, _)
\* the pattern compiler: src from offset i, inside capture group grp (0: none),
\* ngroups groups opened so far, acc the items read so far
RegExpParseFrom(src, i, grp, ngroups, acc) ==
    LET c == CharAt(src, i)
        g == grp
    IN IF i >= Len(src)
       THEN IF grp # 0 THEN RegExpInvalid  \* unterminated group
            ELSE [ok |-> TRUE, items |-> acc, ngroups |-> ngroups]
       ELSE CASE c = "(" ->
                   IF grp # 0 THEN RegExpInvalid  \* nested groups: not in the modelled syntax
                   ELSE RegExpParseFrom(src, i + 1, ngroups + 1, ngroups + 1, acc)
              [] c = ")" ->
                   IF grp = 0 THEN RegExpInvalid  \* unmatched ')'
                   ELSE RegExpParseFrom(src, i + 1, 0, ngroups, acc)
              [] c = "\\" ->
                   IF i + 1 >= Len(src) THEN RegExpInvalid  \* \ at end of pattern
                   ELSE IF CharAt(src, i + 1) = "d"
                        THEN RegExpParseFrom(src, i + 2, grp, ngroups,
                                             Append(acc, Item([t |-> "digit"], g)))
                        ELSE RegExpParseFrom(src, i + 2, grp, ngroups,
                                             Append(acc, Item([t |-> "lit", c |-> CharAt(src, i + 1)], g)))
              [] c = "[" ->
                   IF CharAt(src, i + 2) = "-" /\ CharAt(src, i + 4) = "]"
                   THEN RegExpParseFrom(src, i + 5, grp, ngroups,
                            Append(acc, Item([t |-> "range", lo |-> CharAt(src, i + 1),
                                              hi |-> CharAt(src, i + 3)], g)))
                   ELSE RegExpInvalid  \* unterminated character class
              [] c = "+" ->
                   IF acc = <<>> \/ acc[Len(acc)].k # "cls" \/ acc[Len(acc)].q # "1"
                      \/ CharAt(src, i - 1) \in {"(", ")"}
                   THEN RegExpInvalid  \* nothing to repeat
                   ELSE RegExpParseFrom(src, i + 1, grp, ngroups,
                            [acc EXCEPT ![Len(acc)].q = "+"])
              [] c = "." ->
                   RegExpParseFrom(src, i + 1, grp, ngroups, Append(acc, Item([t |-> "any"], g)))
              [] c = "$" ->
                   RegExpParseFrom(src, i + 1, grp, ngroups, Append(acc, [k |-> "eol"]))
              [] OTHER ->
                   RegExpParseFrom(src, i + 1, grp, ngroups,
                                   Append(acc, Item([t |-> "lit", c |-> c], g)))

\* new RegExp(src)
RegExpCompile(src) == RegExpParseFrom(src, 0, 0, 0, <<>>)

RegExpFail == <<-1>>

RECURSIVE RunLength(_, _, _)
\* how many consecutive characters of text from offset i are in cls
RunLength(text, i, cls) ==
    IF i < Len(text) /\ InClass(CharAt(text, i), cls) THEN 1 + RunLength(text, i + 1, cls) ELSE 0

RECURSIVE RegExpMatchFrom(_, _, _, _)
\* the backtracking matcher: items k.. against text from offset i; the lengths the
\* items take (a greedy item tries its longest run first), or RegExpFail
RegExpMatchFrom(items, k, text, i) ==
    IF k > Len(items) THEN <<>>
    ELSE IF items[k].k = "eol"
         THEN IF i = Len(text)
              THEN LET rest == RegExpMatchFrom(items, k + 1, text, i)
                   IN IF rest = RegExpFail THEN RegExpFail ELSE <<0>> \o rest
              ELSE RegExpFail
    ELSE LET run  == RunLength(text, i, items[k].cls)
             top  == IF items[k].q = "+" THEN run ELSE Min(run, 1)
             good == {n \in 1..top : RegExpMatchFrom(items, k + 1, text, i + n) # RegExpFail}
         IN IF good = {} THEN RegExpFail
            ELSE LET n == CHOOSE m \in good : \A o \in good : m >= o
                 IN <<n>> \o RegExpMatchFrom(items, k + 1, text, i + n)

RECURSIVE SumTo(_, _)
SumTo(lens, k) == IF k = 0 THEN 0 ELSE lens[k] + SumTo(lens, k - 1)

RECURSIVE Capture(_, _, _, _, _, _)
\* the text group g captured: the text of its items, in order
Capture(items, lens, text, start, g, k) ==
    IF k > Len(items) THEN ""
    ELSE (IF items[k].k = "cls" /\ items[k].g = g
          THEN SliceDoc(text, start + SumTo(lens, k - 1), start + SumTo(lens, k))
          ELSE "")
         \o Capture(items, lens, text, start, g, k + 1)

\* regex.exec(text) of new RegExp(src): "throw" when src does not compile, "null"
\* when nothing matches, else the leftmost match: its index and its captures
RegExpExec(src, text) ==
    LET re   == RegExpCompile(src)
        hits == {i \in 0..Len(text) : RegExpMatchFrom(re.items, 1, text, i) # RegExpFail}
    IN IF ~re.ok THEN [status |-> "throw", index |-> -1, groups |-> <<>>]
       ELSE IF hits = {} THEN [status |-> "null", index |-> -1, groups |-> <<>>]
       ELSE LET i    == CHOOSE h \in hits : \A o \in hits : h <= o
                lens == RegExpMatchFrom(re.items, 1, text, i)
            IN [status |-> "match", index |-> i,
                groups |-> [g \in 1..re.ngroups |-> Capture(re.items, lens, text, i, g, 1)]]

(***************************************************************************)
(* The editor helpers main.ts imports (./editor_helpers).                  *)
(***************************************************************************)

\* getOpenBracket
getOpenBracket(closeBracket) ==
    CASE closeBracket = ")" -> "("
      [] closeBracket = "]" -> "["
      [] closeBracket = "}" -> "{"
      [] OTHER -> ""

RECURSIVE MatchForward(_, _, _, _, _, _)
MatchForward(text, i, open, close, stop, depth) ==
    IF i >= stop THEN -1
    ELSE IF StartsAt(text, i, open)
         THEN MatchForward(text, i + 1, open, close, stop, depth + 1)
    ELSE IF StartsAt(text, i, close)
         THEN IF depth - 1 = 0 THEN i
              ELSE MatchForward(text, i + 1, open, close, stop, depth - 1)
    ELSE MatchForward(text, i + 1, open, close, stop, depth)

RECURSIVE MatchBackward(_, _, _, _, _)
MatchBackward(text, i, open, close, depth) ==
    IF i < 0 THEN -1
    ELSE IF StartsAt(text, i, close)
         THEN MatchBackward(text, i - 1, open, close, depth + 1)
    ELSE IF StartsAt(text, i, open)
         THEN IF depth - 1 = 0 THEN i
              ELSE MatchBackward(text, i - 1, open, close, depth - 1)
    ELSE MatchBackward(text, i - 1, open, close, depth)

\* findMatchingBracket(text, start, open, close, searchBackwards, end): the offset
\* where the nesting depth returns to zero, -1 when the bound is reached first
findMatchingBracket(text, start, open, close, searchBackwards, end) ==
    IF searchBackwards
    THEN MatchBackward(text, start, open, close, 0)
    ELSE MatchForward(text, start, open, close, end, 0)

RECURSIVE ScanMath(_, _, _, _, _, _)
\* the math region around pos, scanning the delimiters $ and $$ from offset i:
\* inside/start/block describe the region open at i
ScanMath(text, i, pos, inside, start, block) ==
    LET delim == IF StartsAt(text, i, "$$") /\ (~inside \/ block) THEN "$$"
                 ELSE IF StartsAt(text, i, "$") /\ (~inside \/ ~block) THEN "$"
                 ELSE ""
        none  == [within |-> FALSE, closed |-> FALSE, start |-> -1, end |-> -1, block |-> FALSE]
    IN IF i >= Len(text)
       THEN IF inside
            THEN [within |-> TRUE, closed |-> FALSE, start |-> start, end |-> -1, block |-> block]
            ELSE none
       ELSE IF ~inside
            THEN IF i >= pos THEN none
                 ELSE IF delim = "" THEN ScanMath(text, i + 1, pos, FALSE, -1, FALSE)
                 ELSE IF i + Len(delim) > pos THEN none
                 ELSE ScanMath(text, i + Len(delim), pos, TRUE, i + Len(delim), delim = "$$")
            ELSE IF delim = "" THEN ScanMath(text, i + 1, pos, TRUE, start, block)
                 ELSE IF pos <= i
                      THEN [within |-> TRUE, closed |-> TRUE, start |-> start, end |-> i, block |-> block]
                      ELSE ScanMath(text, i + Len(delim), pos, FALSE, -1, FALSE)

MathRegion(text, pos) == ScanMath(text, 0, pos, FALSE, -1, FALSE)

\* isWithinEquation(view): an unterminated opening delimiter counts as inside
isWithinEquation(text, pos) == MathRegion(text, pos).within

\* isWithinInlineEquation(view)
isWithinInlineEquation(text, pos) == MathRegion(text, pos).within /\ ~MathRegion(text, pos).block

\* getEquationBounds(view): ok is false for the source's null
getEquationBounds(text, pos) ==
    LET r == MathRegion(text, pos)
    IN [ok |-> r.within /\ r.closed, start |-> r.start, end |-> r.end]

\* isInsideEnvironment(view, pos, env): pos lies between an env.openSymbol and the
\* env.closeSymbol matching it.  When the open symbol ends with a bracket that the
\* close symbol closes, nesting is counted on that bracket
isInsideEnvironment(text, pos, env) ==
    LET openBracket == JSSliceFrom(env.openSymbol, -1)
        shared      == openBracket \in {"{", "[", "("} /\ getOpenBracket(env.closeSymbol) = openBracket
        offset      == IF shared THEN Len(env.openSymbol) - 1 ELSE 0
        search      == IF shared THEN openBracket ELSE env.openSymbol
    IN \E left \in 0..Len(text) :
          /\ StartsAt(text, left, env.openSymbol)
          /\ left + Len(env.openSymbol) <= pos
          /\ LET right == findMatchingBracket(text, left + offset, search, env.closeSymbol,
                                              FALSE, Len(text))
             IN right # -1 /\ right >= pos

\* getCharacterAtPos(view, pos)
getCharacterAtPos(text, pos) == CharAt(text, pos)

(***************************************************************************)
(* The pending expansion queue and the tabstop batch (./snippets/...):     *)
(* an edit is [from, to, insert, keyPressed], a tabstop [index, from, to]. *)
(***************************************************************************)

\* queueSnippet(view, edit): appends, the buffer is not touched
queueSnippet(q, edit) == Append(q, edit)

\* clearSnippetQueue(view)
clearSnippetQueue(q) == <<>>

Digits == "0123456789"

RECURSIVE StripTabstops(_, _, _, _)
\* the inserted text without its $n placeholders, and where each of them stood
StripTabstops(insert, i, text, stops) ==
    IF i >= Len(insert) THEN [text |-> text, stops |-> stops]
    ELSE IF CharAt(insert, i) = "$" /\ CharAt(insert, i + 1) # ""
            /\ Contains(Digits, CharAt(insert, i + 1))
         THEN StripTabstops(insert, i + 2, text,
                  Append(stops, [index |-> IndexOf(Digits, CharAt(insert, i + 1), 0),
                                 off |-> Len(text)]))
    ELSE StripTabstops(insert, i + 1, text \o CharAt(insert, i), stops)

Stripped(edit) == StripTabstops(edit.insert, 0, "", <<>>)

RECURSIVE InsertedAt(_, _, _)
\* what the edits k.. of the transaction insert at offset p
InsertedAt(edits, p, k) ==
    IF k > Len(edits) THEN ""
    ELSE (IF edits[k].from = p THEN Stripped(edits[k]).text ELSE "")
         \o InsertedAt(edits, p, k + 1)

Replaced(edits, i) == \E k \in 1..Len(edits) : edits[k].from <= i /\ i < edits[k].to

RECURSIVE ApplyFrom(_, _, _)
ApplyFrom(text, edits, p) ==
    IF p > Len(text) THEN ""
    ELSE InsertedAt(edits, p, 1)
         \o (IF p < Len(text) /\ ~Replaced(edits, p) THEN CharAt(text, p) ELSE "")
         \o ApplyFrom(text, edits, p + 1)

\* one transaction: every edit's offsets are offsets of the text before it
ApplyEdits(text, edits) == ApplyFrom(text, edits, 0)

RECURSIVE InsertedBefore(_, _, _, _)
InsertedBefore(edits, p, after, k) ==
    IF k > Len(edits) THEN 0
    ELSE (IF edits[k].from < p \/ (after /\ edits[k].from = p)
          THEN Len(Stripped(edits[k]).text) ELSE 0)
         + InsertedBefore(edits, p, after, k + 1)

\* ChangeSet.mapPos: an offset of the old text as an offset of the new text;
\* an offset inside a replaced span collapses to the end of what replaced it
MapPos(edits, p, after) ==
    p - Cardinality({i \in 0..(p - 1) : Replaced(edits, i)}) + InsertedBefore(edits, p, after, 1)

MapTabstops(stops, edits) ==
    {[index |-> t.index, from |-> MapPos(edits, t.from, FALSE), to |-> MapPos(edits, t.to, TRUE)] : t \in stops}

\* the tabstops the placeholders of the flushed edits make, at their new offsets
NewTabstops(edits) ==
    UNION {{[index |-> Stripped(edits[k]).stops[n].index,
             from  |-> MapPos(edits, edits[k].from, FALSE) + Stripped(edits[k]).stops[n].off,
             to    |-> MapPos(edits, edits[k].from, FALSE) + Stripped(edits[k]).stops[n].off]
            : n \in 1..Len(Stripped(edits[k]).stops)} : k \in 1..Len(edits)}

MinIndex(stops) == CHOOSE i \in {t.index : t \in stops} : \A t \in stops : i <= t.index

MaxIndex(stops) == CHOOSE i \in {t.index : t \in stops} : \A t \in stops : i >= t.index

RECURSIVE SortRanges(_)
\* a selection keeps its ranges in document order
SortRanges(rs) ==
    IF rs = {} THEN <<>>
    ELSE LET r == CHOOSE x \in rs : \A y \in rs : x.from < y.from \/ (x.from = y.from /\ x.to <= y.to)
         IN <<r>> \o SortRanges(rs \ {r})

\* the selection on the tabstops of one index: mirrored tabstops are all selected
GroupSelection(stops, index) ==
    [ranges |-> SortRanges({[from |-> t.from, to |-> t.to] : t \in {u \in stops : u.index = index}}),
     main |-> 1]

\* the selection after a transaction that sets none: each range mapped, a cursor
\* at the end of a replaced span lands at the tail of what replaced it
MapSelection(s, edits) ==
    [ranges |-> [k \in 1..Len(s.ranges) |->
                    [from |-> MapPos(edits, s.ranges[k].from, s.ranges[k].from = s.ranges[k].to),
                     to   |-> MapPos(edits, s.ranges[k].to, TRUE)]],
     main |-> s.main]

\* isInsideATabstop(pos, view)
isInsideATabstop(pos, stops) == \E t \in stops : t.from <= pos /\ pos <= t.to

\* isInsideLastTabstop(view): the main selection is the terminal tabstop's span
isInsideLastTabstop(s, stops) ==
    /\ stops # {}
    /\ \E t \in stops : /\ t.index = MaxIndex(stops)
                        /\ s.ranges[s.main].from = t.from
                        /\ s.ranges[s.main].to = t.to

\* removeAllTabstops(view)
removeAllTabstops(stops) == {}

(***************************************************************************)
(* Configuration: the settings main.ts reads besides the feature flags,    *)
(* and the tables of ./snippets/snippets.                                  *)
(***************************************************************************)

\* this.settings.removeSnippetWhitespace
removeSnippetWhitespace == TRUE

\* this.settings.wordDelimiters, the "\\n" in it already a newline
wordDelimiters == "., +-\n:;!?/{}[]()=~$"

\* this.settings.autofractionBreakingChars
autofractionBreakingChars == "+-="

\* this.autoEnlargeBracketsTriggers
autoEnlargeBracketsTriggers == <<"sum", "int", "frac">>

\* this.matrixShortcutsEnvNames
matrixShortcutsEnvNames == <<"M">>

\* this.autofractionExcludedEnvs
autofractionExcludedEnvs == <<[openSymbol |-> "^{", closeSymbol |-> "}"]>>

\* the names SNIPPET_VARIABLES["${GREEK}"] lists (one name stands for the list)
GreekNames == <<"pi">>

\* SNIPPET_VARIABLES
SNIPPET_VARIABLES == <<[variable |-> "${GREEK}", replacement |-> "pi"]>>

\* EXCLUSIONS: the environment a trigger never fires in
EXCLUSIONS == <<[trigger |-> "->", environment |-> [openSymbol |-> "\\ce{", closeSymbol |-> "}"]]>>

(***************************************************************************)
(* Snippet matching: insertSnippetVariables, checkSnippet, runSnippetCursor*)
(***************************************************************************)

RECURSIVE InsertVariablesFrom(_, _)
InsertVariablesFrom(trigger, k) ==
    IF k > Len(SNIPPET_VARIABLES) THEN trigger
    ELSE InsertVariablesFrom(JSReplace(trigger, SNIPPET_VARIABLES[k].variable,
                                       SNIPPET_VARIABLES[k].replacement), k + 1)

\* insertSnippetVariables(trigger)
insertSnippetVariables(trigger) == InsertVariablesFrom(trigger, 1)

RECURSIVE SubstituteGroups(_, _, _)
\* for (i = 1; i < result.length; i++) replacement = replacement.replaceAll("[[" + (i-1) + "]]", result[i])
SubstituteGroups(replacement, groups, i) ==
    IF i > Len(groups) THEN replacement
    ELSE SubstituteGroups(JSReplaceAll(replacement, "[[" \o CharAt(Digits, i - 1) \o "]]", groups[i]),
                          groups, i + 1)

CheckNull == [status |-> "null", triggerPos |-> -1, replacement |-> ""]

\* the offset of a literal trigger taken one character too far left
LiteralTriggerPosOffByOne(effectiveLine, trigger) == Len(effectiveLine) - Len(trigger) - 1

\* triggerPos = effectiveLine.length - trigger.length, for a literal trigger
LiteralTriggerPos(effectiveLine, trigger) == Len(effectiveLine) - Len(trigger)

\* the end of checkSnippet for a regex snippet: result is regex.exec(effectiveLine)
CheckRegexResult(result, replacement) ==
    IF result.status = "throw"
    THEN [status |-> "throw", triggerPos |-> -1, replacement |-> ""]
    ELSE IF result.status = "null" THEN CheckNull
    ELSE [status |-> "ok", triggerPos |-> result.index,
          replacement |-> SubstituteGroups(replacement, result.groups, 1)]

\* checkSnippet once snippet.trigger has its variables inserted
CheckTrigger(trigger, snippet, effectiveLine, range, sel) ==
    IF Contains(snippet.replacement, "${VISUAL}")
    THEN IF sel = "" THEN CheckNull
         ELSE IF ~(JSSliceFrom(effectiveLine, -Len(trigger)) = trigger) THEN CheckNull
         ELSE [status |-> "ok", triggerPos |-> range.from,
               replacement |-> JSReplace(snippet.replacement, "${VISUAL}", sel)]
    ELSE IF sel # "" THEN CheckNull
    ELSE IF ~Contains(snippet.options, "r")
         THEN IF ~(JSSliceFrom(effectiveLine, -Len(trigger)) = trigger) THEN CheckNull
              ELSE [status |-> "ok", triggerPos |-> LiteralTriggerPos(effectiveLine, trigger),
                    replacement |-> snippet.replacement]
    ELSE CheckRegexResult(RegExpExec(trigger \o "$", effectiveLine), snippet.replacement)

\* checkSnippet(snippet, effectiveLine, range, sel): "null", "throw" (the trigger
\* does not compile), or "ok" with the trigger's offset and the replacement
checkSnippet(snippet, effectiveLine, range, sel) ==
    CheckTrigger(insertSnippetVariables(snippet.trigger), snippet, effectiveLine, range, sel)

\* snippet.trigger in EXCLUSIONS, and the cursor is inside that environment
IsExcluded(text, to, trigger) ==
    \E k \in 1..Len(EXCLUSIONS) :
        EXCLUSIONS[k].trigger = trigger /\ isInsideEnvironment(text, to, EXCLUSIONS[k].environment)

\* the removal of a trailing space, or of the space of a trailing " $n", in inline math
RemoveWhitespace(replacement, withinMath, text, mainPos) ==
    LET lastThreeChars == JSSliceFrom(replacement, -3)
        lastChar       == JSSliceFrom(lastThreeChars, -1)
        spaceIndex     == IF EndsWith(replacement, " ") THEN -1
                          ELSE IF JSSlice(lastThreeChars, 0, 2) = " $" /\ lastChar # ""
                                  /\ Contains(Digits, lastChar) THEN -3
                          ELSE 0
    IN IF withinMath /\ removeSnippetWhitespace /\ spaceIndex # 0
          /\ isWithinInlineEquation(text, mainPos)
       THEN IF spaceIndex = -1 THEN TrimEnd(replacement)
            ELSE JSSlice(replacement, 0, -3) \o JSSliceFrom(replacement, -2)
       ELSE replacement

\* replacement.contains("\\" + word) for some auto-enlarge trigger word
ContainsEnlargeTrigger(str) ==
    \E k \in 1..Len(autoEnlargeBracketsTriggers) : Contains(str, "\\" \o autoEnlargeBracketsTriggers[k])

NoEdit == [from |-> 0, to |-> 0, insert |-> "", keyPressed |-> ""]

Skip == [status |-> "skip", edit |-> NoEdit, enlarge |-> FALSE, snippet |-> 0]

\* the end of one pass of the loop: the replacement is queued from triggerPos to the cursor
QueueReplacement(replacement, triggerPos, to, key, k) ==
    [status |-> "queued",
     edit |-> [from |-> triggerPos, to |-> to, insert |-> replacement, keyPressed |-> key],
     enlarge |-> ContainsEnlargeTrigger(replacement),
     snippet |-> k]

\* the word-delimiter check looking at the character before the trigger only
IsWordBoundaryPrevOnly(text, triggerPos, to) ==
    Contains(wordDelimiters, SliceDoc(text, triggerPos - 1, triggerPos))

\* prevCharIsWordDelimiter && nextCharIsWordDelimiter: String.contains of the
\* sliced character, which is the empty string at either end of the text
IsWordBoundary(text, triggerPos, to) ==
    /\ Contains(wordDelimiters, SliceDoc(text, triggerPos - 1, triggerPos))
    /\ Contains(wordDelimiters, SliceDoc(text, to, to + 1))

\* one pass of the loop after checkSnippet returned result
SnippetResult(result, snippet, k, text, mainPos, key, withinMath, to) ==
    IF result.status = "throw"
    THEN [status |-> "throw", edit |-> NoEdit, enlarge |-> FALSE, snippet |-> k]
    ELSE IF result.status = "null" THEN Skip
    ELSE IF Contains(snippet.options, "w") /\ ~IsWordBoundary(text, result.triggerPos, to)
         THEN Skip
    ELSE QueueReplacement(RemoveWhitespace(result.replacement, withinMath, text, mainPos),
                          result.triggerPos, to, key, k)

\* the test of the key letting every snippet through whatever the key
KeySkipsNever(anyKey, key) == FALSE

\* the test of the key: an any-character snippet is passed over unless the key is
\* one character, every other snippet unless the key is Tab
KeySkips(anyKey, key) ==
    \/ anyKey /\ ~(Len(key) = 1)
    \/ ~anyKey /\ ~(key = "Tab")

\* effectiveLine: the text up to the cursor, the key appended for an
\* any-character snippet
EffectiveLine(anyKey, text, to, key) ==
    IF anyKey THEN SliceDoc(text, 0, to) \o key ELSE SliceDoc(text, 0, to)

\* one pass of the loop of runSnippetCursor, on snippet k: "skip" stands for continue
SnippetPass(snippet, k, text, mainPos, key, withinMath, range) ==
    LET anyKey == Contains(snippet.options, "A") \/ Contains(snippet.replacement, "${VISUAL}")
    IN IF Contains(snippet.options, "m") /\ ~withinMath THEN Skip
       ELSE IF Contains(snippet.options, "t") /\ withinMath THEN Skip
       ELSE IF KeySkips(anyKey, key) THEN Skip
       ELSE IF IsExcluded(text, range.to, snippet.trigger) THEN Skip
       ELSE SnippetResult(checkSnippet(snippet, EffectiveLine(anyKey, text, range.to, key),
                                       range, SliceDoc(text, range.from, range.to)),
                          snippet, k, text, mainPos, key, withinMath, range.to)

RECURSIVE SnippetScan(_, _, _, _, _, _, _)

\* the loop going on after a pass that queued, a later snippet that fires too
\* taking its place
SnippetLoopLastWins(pass, snips, k, text, mainPos, key, withinMath, range) ==
    IF pass.status = "skip" THEN SnippetScan(snips, k + 1, text, mainPos, key, withinMath, range)
    ELSE IF pass.status = "queued"
            /\ SnippetScan(snips, k + 1, text, mainPos, key, withinMath, range).status = "queued"
         THEN SnippetScan(snips, k + 1, text, mainPos, key, withinMath, range)
    ELSE pass

\* the loop goes on after pass k unless that pass returned
SnippetLoop(pass, snips, k, text, mainPos, key, withinMath, range) ==
    IF pass.status = "skip" THEN SnippetScan(snips, k + 1, text, mainPos, key, withinMath, range)
    ELSE pass

\* the loop of runSnippetCursor over this.snippets from index k: "none" when no
\* snippet fires, "throw", or "queued" with the edit of the first that does
SnippetScan(snips, k, text, mainPos, key, withinMath, range) ==
    IF k > Len(snips) THEN [status |-> "none", edit |-> NoEdit, enlarge |-> FALSE, snippet |-> 0]
    ELSE SnippetLoop(SnippetPass(snips[k], k, text, mainPos, key, withinMath, range),
                     snips, k, text, mainPos, key, withinMath, range)

\* runSnippetCursor(view, key, withinMath, range)
runSnippetCursor(snips, text, mainPos, key, withinMath, range) ==
    SnippetScan(snips, 1, text, mainPos, key, withinMath, range)

(***************************************************************************)
(* Auto-fraction, auto-enlarge-brackets, tabout, matrix shortcuts.         *)
(***************************************************************************)

RECURSIVE MaskGreekFrom(_, _)
\* curLine.replace(/(GREEK) ([^ ])/g, "$1#$2"): the space after a Greek letter name,
\* when a character other than a space follows it, becomes #
MaskGreekFrom(line, i) ==
    IF i >= Len(line) THEN ""
    ELSE LET names == {k \in 1..Len(GreekNames) :
                          /\ StartsAt(line, i, GreekNames[k] \o " ")
                          /\ CharAt(line, i + Len(GreekNames[k]) + 1) \notin {"", " "}}
         IN IF names = {} THEN CharAt(line, i) \o MaskGreekFrom(line, i + 1)
            ELSE LET n == GreekNames[CHOOSE k \in names : \A o \in names : k <= o]
                 IN n \o "#" \o CharAt(line, i + Len(n) + 1)
                      \o MaskGreekFrom(line, i + Len(n) + 2)

MaskGreek(line) == MaskGreekFrom(line, 0)

RECURSIVE NumeratorStart(_, _, _)
\* the backward loop of runAutoFractionCursor from offset i: where the numerator
\* starts, or ok false when a closing bracket has no partner
NumeratorStart(curLine, i, eqnStart) ==
    IF i < eqnStart THEN [ok |-> TRUE, start |-> eqnStart]
    ELSE LET curChar == CharAt(curLine, i)
             isClose == curChar \in {")", "]", "}"}
             j       == findMatchingBracket(curLine, i, getOpenBracket(curChar), curChar, TRUE, 0)
             i2      == IF isClose THEN j ELSE i
         IN IF isClose /\ j = -1 THEN [ok |-> FALSE, start |-> -1]
            ELSE IF isClose /\ i2 < eqnStart THEN [ok |-> TRUE, start |-> eqnStart]
            ELSE IF curChar # "" /\ Contains(" $([{\n" \o autofractionBreakingChars, curChar)
                 THEN [ok |-> TRUE, start |-> i2 + 1]
            ELSE NumeratorStart(curLine, i2 - 1, eqnStart)

\* the numerator left with its brackets on
NumeratorKeepsBrackets(curLine, start, to, whole) == whole

\* the numerator: the text from start to the cursor, without its first and last
\* character when these are ( and )
Numerator(curLine, start, to, whole) ==
    IF CharAt(curLine, start) = "(" /\ CharAt(curLine, to - 1) = ")"
    THEN JSSlice(whole, 1, -1) ELSE whole

\* runAutoFractionCursor(view, range): queued is false when it returns false
runAutoFractionCursor(text, mainPos, range) ==
    LET from    == range.from
        to      == range.to
        result  == getEquationBounds(text, mainPos)
        plain   == SliceDoc(text, 0, to)
        curLine == IF from # to THEN plain ELSE MaskGreek(plain)
        found   == IF from # to THEN [ok |-> TRUE, start |-> from]
                   ELSE NumeratorStart(curLine, Len(curLine) - 1, result.start)
        start   == found.start
        whole   == SliceDoc(text, start, to)
        numerator == Numerator(curLine, start, to, whole)
    IN IF \E k \in 1..Len(autofractionExcludedEnvs) :
              isInsideEnvironment(text, to, autofractionExcludedEnvs[k])
       THEN [queued |-> FALSE, edit |-> NoEdit]
       ELSE IF ~result.ok THEN [queued |-> FALSE, edit |-> NoEdit]
       ELSE IF ~found.ok THEN [queued |-> FALSE, edit |-> NoEdit]
       ELSE IF whole = "" THEN [queued |-> FALSE, edit |-> NoEdit]
       ELSE [queued |-> TRUE,
             edit |-> [from |-> start, to |-> to,
                       insert |-> "\\frac{" \o numerator \o "}{$0}$1", keyPressed |-> "/"]]

\* the bracket table of autoEnlargeBrackets, in the order it is searched
EnlargeBrackets ==
    <<[open |-> "(", close |-> ")"], [open |-> "[", close |-> "]"],
      [open |-> "\\{", close |-> "\\}"], [open |-> "\\langle", close |-> "\\rangle"],
      [open |-> "\\lvert", close |-> "\\rvert"]>>

\* the test for \left and \right finding none
AlreadyEnlargedNever(text, i, j) == FALSE

\* text.slice(i - left.length, i) === left && text.slice(j - right.length, j) === right
AlreadyEnlarged(text, i, j) ==
    JSSlice(text, i - 5, i) = "\\left" /\ JSSlice(text, j - 6, j) = "\\right"

RECURSIVE EnlargeFrom(_, _, _)
\* the loop of autoEnlargeBrackets from offset i: the edits it queues
EnlargeFrom(text, i, end) ==
    IF i >= end THEN <<>>
    ELSE LET found == {k \in 1..Len(EnlargeBrackets) : StartsAt(text, i, EnlargeBrackets[k].open)}
         IN IF found = {} THEN EnlargeFrom(text, i + 1, end)
            ELSE LET b     == EnlargeBrackets[CHOOSE k \in found : \A o \in found : k <= o]
                     open  == b.open
                     close == b.close
                     bracketSize == Len(open)
                     j     == findMatchingBracket(text, i, open, close, FALSE, end)
                 IN IF j = -1 THEN EnlargeFrom(text, i + 1, end)
                    ELSE IF AlreadyEnlarged(text, i, j) THEN EnlargeFrom(text, i + 1, end)
                    ELSE IF ~ContainsEnlargeTrigger(JSSlice(text, i + 1, j))
                         THEN EnlargeFrom(text, j + 1, end)
                    ELSE <<[from |-> i, to |-> i + bracketSize,
                            insert |-> "\\left" \o open \o " ", keyPressed |-> ""],
                           [from |-> j, to |-> j + bracketSize,
                            insert |-> " " \o "\\right" \o close, keyPressed |-> ""]>>
                         \o EnlargeFrom(text, i + 1, end)

\* autoEnlargeBrackets(view), up to its expandSnippets: the edits it queues
autoEnlargeBrackets(enabled, text, mainPos) ==
    LET result == getEquationBounds(text, mainPos)
    IN IF ~enabled THEN <<>>
       ELSE IF ~result.ok THEN <<>>
       ELSE EnlargeFrom(text, result.start, result.end)

\* d.lineAt(pos)
LineAt(text, pos) ==
    LET from == LastIndexOf(text, "\n", pos - 1) + 1
        nl   == IndexOf(text, "\n", pos)
        to   == IF nl = -1 THEN Len(text) ELSE nl
    IN [from |-> from, to |-> to, text |-> SliceDoc(text, from, to), last |-> nl = -1]

RECURSIVE NextCloser(_, _, _)
\* the first loop of tabout: the offset just past the next }, ), ], >, | or \rangle
NextCloser(text, i, end) ==
    IF i >= end THEN -1
    ELSE IF CharAt(text, i) \in {"}", ")", "]", ">", "|"} THEN i + 1
    ELSE IF StartsAt(text, i, "\\rangle") THEN i + Len("\\rangle")
    ELSE NextCloser(text, i + 1, end)

\* the way out of inline math making a line after the equation as the way out
\* of block math does
TaboutInlineNewLine(text, end) ==
    <<[from |-> LineAt(text, end).to, to |-> LineAt(text, end).to, insert |-> "\n"],
      [cursor |-> end + 1]>>

\* the way out of inline math: setCursor(view, end + 1)
TaboutInline(text, end) == <<[cursor |-> end + 1]>>

\* tabout(view, withinEquation): handled, and when handled the list of what it
\* dispatches, each a cursor move (setCursor) or a change (replaceRange)
tabout(text, pos, withinEquation) ==
    LET result == getEquationBounds(text, pos)
        end    == result.end
        closer == NextCloser(text, pos, end)
        atEnd  == Len(Trim(SliceDoc(text, pos, end))) = 0
        inlineMath == SliceDoc(text, end, end + 2) # "$$"
        dollarLine == LineAt(text, end + 2)
        line   == LineAt(text, pos)
        no     == [handled |-> FALSE, steps |-> <<>>]
    IN IF ~withinEquation THEN no
       ELSE IF ~result.ok THEN no
       ELSE IF closer # -1 THEN [handled |-> TRUE, steps |-> <<[cursor |-> closer]>>]
       ELSE IF ~atEnd THEN no
       ELSE IF inlineMath THEN [handled |-> TRUE, steps |-> TaboutInline(text, end)]
       ELSE [handled |-> TRUE,
             steps |-> (IF dollarLine.last
                        THEN <<[from |-> dollarLine.to, to |-> dollarLine.to, insert |-> "\n"]>>
                        ELSE <<>>)
                       \o <<[cursor |-> dollarLine.to + 1],
                            [from |-> line.from, to |-> line.to, insert |-> Trim(line.text)]>>]

\* runMatrixShortcuts(view, key, shiftKey, pos): "no" (returns false), "throw"
\* (d.line of a line past the last), "cursor" (setCursor) or "insert" (replaceSelection)
runMatrixShortcuts(text, key, shiftKey, pos) ==
    LET isInsideAnEnv ==
            \E k \in 1..Len(matrixShortcutsEnvNames) :
                isInsideEnvironment(text, pos,
                    [openSymbol  |-> "\\begin{" \o matrixShortcutsEnvNames[k] \o "}",
                     closeSymbol |-> "\\end{" \o matrixShortcutsEnvNames[k] \o "}"])
        here == LineAt(text, pos)
    IN IF ~isInsideAnEnv THEN [kind |-> "no", cursor |-> -1, insert |-> ""]
       ELSE IF key = "Tab" THEN [kind |-> "insert", cursor |-> -1, insert |-> " & "]
       ELSE IF key = "Enter"
            THEN IF shiftKey
                 THEN IF here.last THEN [kind |-> "throw", cursor |-> -1, insert |-> ""]
                      ELSE [kind |-> "cursor", cursor |-> LineAt(text, here.to + 1).to, insert |-> ""]
                 ELSE [kind |-> "insert", cursor |-> -1, insert |-> " \\\\\n"]
       ELSE [kind |-> "no", cursor |-> -1, insert |-> ""]

\* shouldTaboutByCloseBracket(view, keyPressed)
shouldTaboutByCloseBracket(text, s, keyPressed) ==
    LET main == s.ranges[s.main]
        c    == getCharacterAtPos(text, main.from)
    IN IF main.from # main.to THEN FALSE
       ELSE c = keyPressed /\ c \in {")", "]", "}"}

(***************************************************************************)
(* The snippet repository: setSnippets parses the definitions and sorts.   *)
(***************************************************************************)

\* getSnippetsFromString: a malformed definition is skipped, the others are kept
getSnippetsFromString(defs) == SelectSeq(defs, LAMBDA d : d.trigger # "")

RECURSIVE InsertByLength(_, _)
InsertByLength(sorted, sn) ==
    IF sorted = <<>> THEN <<sn>>
    ELSE IF Len(Head(sorted).trigger) >= Len(sn.trigger)
         THEN <<Head(sorted)>> \o InsertByLength(Tail(sorted), sn)
         ELSE <<sn>> \o sorted

RECURSIVE SortFrom(_, _, _)
SortFrom(snips, k, sorted) ==
    IF k > Len(snips) THEN sorted ELSE SortFrom(snips, k + 1, InsertByLength(sorted, snips[k]))

\* sortSnippets: longer triggers first, the order of equal lengths kept
sortSnippets(snips) == SortFrom(snips, 1, <<>>)

Sn(trigger, replacement, options) ==
    [trigger |-> trigger, replacement |-> replacement, options |-> options]

\* The snippet definition files the model loads
SnippetSources ==
    <<  \* 1: literal, regex and auto snippets
        << Sn("aa", "b", ""),
           Sn("", "malformed", ""),
           Sn("([a-z])(\\d)", "[[0]]^{[[1]]}", "rm"),
           Sn("sm", "\\sum", "mA"),
           Sn("mk", "$$0$", "tA"),
           Sn("(.+)h", "\\hat{[[0]]}", "rt") >>,
        \* 2: a trigger that does not compile, after a literal one
        << Sn("aa", "b$0c$1", ""),
           Sn("(x", "y", "r") >>,
        \* 3: tabstops, a visual snippet, a word snippet
        << Sn("fr", "\\frac{$0}{$1}$2", "m"),
           Sn("B", "\\mathbf{${VISUAL}}", "A"),
           Sn("to", "\\to", "w"),
           Sn("=>", "\\implies", ""),
           Sn(">", "\\gt", "") >> >>

(***************************************************************************)
(* The update listener: handleUpdate, handleDocChange, handleCursorActivity*)
(***************************************************************************)

\* handleUpdate(update): the flag cursorTriggeredByChange and the tabstops after
\* an update of the view whose selection is s
handleUpdate(flag, stops, s, docChanged, selectionSet) ==
    LET changed == IF docChanged THEN TRUE ELSE flag   \* handleDocChange
        pos     == s.ranges[s.main].to
    IN IF ~selectionSet THEN [flag |-> changed, stops |-> stops]
       \* handleCursorActivity(view, pos)
       ELSE IF changed THEN [flag |-> FALSE, stops |-> stops]
       ELSE IF ~isInsideATabstop(pos, stops) \/ isInsideLastTabstop(s, stops)
            THEN [flag |-> FALSE, stops |-> removeAllTabstops(stops)]
            ELSE [flag |-> FALSE, stops |-> stops]

Cursor(p) == [ranges |-> <<[from |-> p, to |-> p]>>, main |-> 1]

\* setCursor(view, pos): a transaction that sets the selection only
SetCursorView(v, p) ==
    LET u == handleUpdate(v.flag, v.stops, Cursor(p), FALSE, TRUE)
    IN [doc |-> v.doc, sel |-> Cursor(p), stops |-> u.stops, flag |-> u.flag]

\* replaceRange(view, from, to, text): a transaction that changes the text only
ReplaceRangeView(v, edit) ==
    LET edits == <<[from |-> edit.from, to |-> edit.to, insert |-> edit.insert, keyPressed |-> ""]>>
        sel1  == MapSelection(v.sel, edits)
        st1   == MapTabstops(v.stops, edits)
        u     == handleUpdate(v.flag, st1, sel1, TRUE, FALSE)
    IN [doc |-> ApplyEdits(v.doc, edits), sel |-> sel1, stops |-> u.stops, flag |-> u.flag]

\* view.dispatch(view.state.replaceSelection(text)): every range is replaced by
\* the text and the cursor put after it; the text and the selection both change
ReplaceSelectionView(v, text) ==
    LET edits == [k \in 1..Len(v.sel.ranges) |->
                     [from |-> v.sel.ranges[k].from, to |-> v.sel.ranges[k].to,
                      insert |-> text, keyPressed |-> ""]]
        sel1  == [ranges |-> [k \in 1..Len(edits) |->
                                 [from |-> MapPos(edits, edits[k].to, TRUE),
                                  to   |-> MapPos(edits, edits[k].to, TRUE)]],
                  main |-> v.sel.main]
        st1   == MapTabstops(v.stops, edits)
        u     == handleUpdate(v.flag, st1, sel1, TRUE, TRUE)
    IN [doc |-> ApplyEdits(v.doc, edits), sel |-> sel1, stops |-> u.stops, flag |-> u.flag]

\* expandSnippets(view) on a non-empty queue: one transaction applies every edit;
\* placeholders make a fresh tabstop batch and the cursor goes to its lowest index
expandSnippets(v, edits) ==
    LET fresh == NewTabstops(edits)
        st1   == IF fresh # {} THEN fresh ELSE MapTabstops(v.stops, edits)
        sel1  == IF fresh # {} THEN GroupSelection(fresh, MinIndex(fresh))
                 ELSE MapSelection(v.sel, edits)
        u     == handleUpdate(v.flag, st1, sel1, TRUE, TRUE)
    IN [doc |-> ApplyEdits(v.doc, edits), sel |-> sel1, stops |-> u.stops, flag |-> u.flag]

\* consumeAndGotoNextTabstop(view): no batch, nothing happens; the terminal
\* tabstop occupied, the batch is cleared and the key not handled; else the
\* occupied tabstop is dropped and the next index selected
consumeAndGotoNextTabstop(v) ==
    IF v.stops = {} THEN [handled |-> FALSE, view |-> v]
    ELSE IF MinIndex(v.stops) = MaxIndex(v.stops)
         THEN [handled |-> FALSE, view |-> [v EXCEPT !.stops = removeAllTabstops(v.stops)]]
    ELSE LET rest == {t \in v.stops : t.index # MinIndex(v.stops)}
             sel1 == GroupSelection(rest, MinIndex(rest))
             u    == handleUpdate(v.flag, rest, sel1, FALSE, TRUE)
         IN [handled |-> TRUE,
             view |-> [doc |-> v.doc, sel |-> sel1, stops |-> u.stops, flag |-> u.flag]]

\* handleTabstops reporting handled whenever a batch was live
handleTabstopsAlwaysHandled(v) ==
    [handled |-> v.stops # {}, view |-> consumeAndGotoNextTabstop(v).view]

\* handleTabstops(view)
handleTabstops(v) == consumeAndGotoNextTabstop(v)

RECURSIVE RunSteps(_, _, _)
\* the dispatches of tabout, in order
RunSteps(v, steps, k) ==
    IF k > Len(steps) THEN v
    ELSE RunSteps(IF "cursor" \in DOMAIN steps[k]
                  THEN SetCursorView(v, steps[k].cursor)
                  ELSE ReplaceRangeView(v, steps[k]),
                  steps, k + 1)

(***************************************************************************)
(* The state: the view (text, selection, queue and tabstop fields), the    *)
(* plugin object, and handleKeydown's position and locals.                 *)
(***************************************************************************)
VARIABLES
    doc,                        \* view.state.doc
    sel,                        \* view.state.selection: ranges in document order, main
    queue,                      \* snippetQueueStateField
    tabstops,                   \* tabstopsStateField
    snippets,                   \* this.snippets
    settings,                   \* this.settings: the five feature flags
    cursorTriggeredByChange,    \* this.cursorTriggeredByChange
    shouldAutoEnlargeBrackets,  \* this.shouldAutoEnlargeBrackets
    pc,                         \* where handleKeydown stands; "idle", "done", "threw" between keys
    kd,                         \* handleKeydown's arguments and locals
    cur,                        \* the index of the loop over ranges
    ret,                        \* what the last handleKeydown returned
    obs,                        \* observations of the current keystroke (history)
    note,                       \* the last update notification from outside a keystroke (history)
    events                      \* how many key events and host events have happened

vars == <<doc, sel, queue, tabstops, snippets, settings, cursorTriggeredByChange,
          shouldAutoEnlargeBrackets, pc, kd, cur, ret, obs, note, events>>

\* how many key events and host events one behaviour holds
MaxEvents == 3

Sel1(p) == Cursor(p)

Sel2(p, q) == [ranges |-> <<[from |-> p, to |-> p], [from |-> q, to |-> q]>>, main |-> 2]

SelRange(a, b) == [ranges |-> <<[from |-> a, to |-> b]>>, main |-> 1]

\* The buffers a behaviour starts from: the text, the selections tried on it and
\* the snippet files loaded with it
Buffers ==
    << [doc |-> "aaaa",     sels |-> {Sel1(4), Sel2(2, 3), Sel2(2, 4), Sel2(1, 4)}, files |-> {2}   ],
       [doc |-> "$x9$",     sels |-> {Sel1(2), Sel1(3)},                          files |-> {1}],
       [doc |-> "$$x$$h",   sels |-> {Sel1(6)},                                   files |-> {1}],
       [doc |-> "$(s)$ m",  sels |-> {Sel1(3), Sel1(7), Sel2(3, 7)},              files |-> {1}],
       [doc |-> "$(a+b)$",  sels |-> {Sel1(6), Sel1(3), Sel1(1), Sel2(3, 6)},     files |-> {3}   ],
       [doc |-> "$fr+(x)$", sels |-> {Sel1(3), Sel1(6), SelRange(1, 3)},          files |-> {3}],
       [doc |-> "$\\begin{M}a\\end{M}$", sels |-> {Sel1(11)},                     files |-> {1}],
       [doc |-> "$$\nx \n$$", sels |-> {Sel1(5), Sel1(3)},                        files |-> {3}],
       [doc |-> "a => to b", sels |-> {Sel1(4), Sel1(7), SelRange(0, 1)},         files |-> {3}],
       [doc |-> "to tomorrow", sels |-> {Sel1(2), Sel1(5)},                       files |-> {3}],
       [doc |-> "$$x$$h",   sels |-> {SelRange(0, 2)},                            files |-> {3}],
       [doc |-> "$m$ m",    sels |-> {Sel2(2, 5)},                                files |-> {1}],
       [doc |-> "$x+1$",    sels |-> {Sel1(4)},                                   files |-> {1}],
       [doc |-> "$(a)(b)$", sels |-> {Sel1(7)},                                   files |-> {2}] >>

\* The key events tried: key, shiftKey, ctrlKey
Keys ==
    { [key |-> "Tab", shiftKey |-> FALSE, ctrlKey |-> FALSE],
      [key |-> "/", shiftKey |-> FALSE, ctrlKey |-> FALSE],
      [key |-> "m", shiftKey |-> FALSE, ctrlKey |-> FALSE],
      [key |-> "m", shiftKey |-> FALSE, ctrlKey |-> TRUE],
      [key |-> "k", shiftKey |-> FALSE, ctrlKey |-> FALSE],
      [key |-> "B", shiftKey |-> TRUE, ctrlKey |-> FALSE],
      [key |-> ")", shiftKey |-> FALSE, ctrlKey |-> FALSE],
      [key |-> "Enter", shiftKey |-> FALSE, ctrlKey |-> FALSE],
      [key |-> "Enter", shiftKey |-> TRUE, ctrlKey |-> FALSE] }

AllOn ==
    [snippetsEnabled |-> TRUE, autofractionEnabled |-> TRUE, matrixShortcutsEnabled |-> TRUE,
     taboutEnabled |-> TRUE, autoEnlargeBrackets |-> TRUE]

AllOff ==
    [snippetsEnabled |-> FALSE, autofractionEnabled |-> FALSE, matrixShortcutsEnabled |-> FALSE,
     taboutEnabled |-> FALSE, autoEnlargeBrackets |-> FALSE]

NoKey ==
    [key |-> "", shiftKey |-> FALSE, ctrlKey |-> FALSE, ranges |-> <<>>, pos |-> 0,
     withinEquation |-> FALSE, withinMath |-> FALSE]

NoObs ==
    [offered |-> <<>>, doc0 |-> "", stops0 |-> {}, threw |-> FALSE, queuedAtThrow |-> 0,
     scanned |-> <<>>, flushes |-> <<>>, by |-> "", terminal |-> FALSE, origins |-> <<>>]

NoNote == [kind |-> "none", outside |-> FALSE, stops |-> {}, cleared |-> FALSE, file |-> 0]

\* setSnippets(snippetsStr)
setSnippets(defs) == sortSnippets(getSnippetsFromString(defs))

Init ==
    /\ \E b \in 1..Len(Buffers) :
          /\ doc = Buffers[b].doc
          /\ sel \in Buffers[b].sels
          /\ \E f \in Buffers[b].files : snippets = setSnippets(SnippetSources[f])
    /\ queue = <<>>
    /\ tabstops = {}
    /\ settings = AllOn
    /\ cursorTriggeredByChange = FALSE
    /\ shouldAutoEnlargeBrackets = FALSE
    /\ pc = "idle"
    /\ kd = NoKey
    /\ cur = 0
    /\ ret = "none"
    /\ obs = NoObs
    /\ note = NoNote
    /\ events = 0

View == [doc |-> doc, sel |-> sel, stops |-> tabstops, flag |-> cursorTriggeredByChange]

SetView(v) ==
    /\ doc' = v.doc
    /\ sel' = v.sel
    /\ tabstops' = v.stops
    /\ cursorTriggeredByChange' = v.flag

Between == pc \in {"idle", "done", "threw"}

MainPos == sel.ranges[sel.main].to

RECURSIVE Reverse(_)
Reverse(seq) == IF seq = <<>> THEN <<>> ELSE Reverse(Tail(seq)) \o <<Head(seq)>>

(***************************************************************************)
(* handleKeydown, one action per step of it.                               *)
(***************************************************************************)

\* where handleKeydown goes after handler h reported handled or not: the first
\* handler that reports handled ends it, and tabout is the last
NextStage(h, handled) ==
    IF handled THEN "done"
    ELSE CASE h = "snippets"     -> "tabstops"
           [] h = "tabstops"     -> "autofraction"
           [] h = "autofraction" -> "matrix"
           [] h = "matrix"       -> "tabout"
           [] h = "tabout"       -> "done"

\* what handleKeydown returns when it goes on to stage next after a handler
Returned(next, handled) == IF next # "done" THEN "none" ELSE IF handled THEN "true" ELSE "false"

\* a handler h is left: it ran or was skipped by its guard, and reported handled or not
Leave(h, ran, handled, o) ==
    /\ pc' = NextStage(h, handled)
    /\ ret' = Returned(NextStage(h, handled), handled)
    /\ obs' = [o EXCEPT !.offered = Append(@, [h |-> h, ran |-> ran, handled |-> handled])]

\* the catch block without its clearSnippetQueue
CatchSnippetErrorKeepsQueue(q) == q

\* the catch block of handleKeydown around runSnippets
CatchSnippetError(q) == clearSnippetQueue(q)

\* the locals handleKeydown computes before any handler: pos, withinEquation and
\* withinMath (whether within \text{} or \tag{})
KeyLocals ==
    LET pos == MainPos
        withinEquation == isWithinEquation(doc, pos)
        withinMath ==
            withinEquation
            /\ ~(\/ isInsideEnvironment(doc, pos, [openSymbol |-> "\\text{", closeSymbol |-> "}"])
                 \/ isInsideEnvironment(doc, pos, [openSymbol |-> "\\tag{", closeSymbol |-> "}"]))
    IN [pos |-> pos, withinEquation |-> withinEquation, withinMath |-> withinMath]

\* handleKeydown is entered with the key event e, its locals being loc, and the
\* snippet step starts
KeyDownWith(e, loc) ==
    /\ Between
    /\ events < MaxEvents
    /\ events' = events + 1
    /\ note' = NoNote
    /\ LET o == [NoObs EXCEPT !.doc0 = doc, !.stops0 = tabstops]
       IN /\ kd' = [key |-> e.key, shiftKey |-> e.shiftKey, ctrlKey |-> e.ctrlKey,
                    ranges |-> Reverse(sel.ranges), pos |-> loc.pos,
                    withinEquation |-> loc.withinEquation, withinMath |-> loc.withinMath]
          /\ IF settings.snippetsEnabled /\ ~e.ctrlKey
             THEN \* runSnippets begins
                  /\ pc' = "snipCursor"
                  /\ cur' = 1
                  /\ shouldAutoEnlargeBrackets' = FALSE
                  /\ ret' = "none"
                  /\ obs' = o
             ELSE /\ Leave("snippets", FALSE, FALSE, o)
                  /\ UNCHANGED <<cur, shouldAutoEnlargeBrackets>>
    /\ UNCHANGED <<doc, sel, queue, tabstops, snippets, settings, cursorTriggeredByChange>>

\* handleKeydown is entered: its locals are computed and the snippet step starts
KeyDown ==
    /\ Between
    /\ LET loc == KeyLocals
       IN \E e \in Keys : KeyDownWith(e, loc)

\* runSnippets leaving its loop after the first range
SnippetCursorDoneFirstOnly(r, o) ==
    IF r.status = "throw"
    THEN /\ queue' = CatchSnippetError(queue)
         /\ Leave("snippets", TRUE, FALSE, [o EXCEPT !.threw = TRUE, !.queuedAtThrow = Len(queue)])
         /\ UNCHANGED <<cur, shouldAutoEnlargeBrackets>>
    ELSE /\ queue' = IF r.status = "queued" THEN queueSnippet(queue, r.edit) ELSE queue
         /\ shouldAutoEnlargeBrackets' =
                (shouldAutoEnlargeBrackets \/ (r.status = "queued" /\ r.enlarge))
         /\ cur' = cur + 1
         /\ pc' = "snipFlush"
         /\ obs' = IF r.status = "queued"
                   THEN [o EXCEPT !.origins = Append(@, [snippet |-> snippets[r.snippet],
                                                          index |-> r.snippet,
                                                          range |-> kd.ranges[cur],
                                                          edit |-> r.edit])]
                   ELSE o
         /\ UNCHANGED ret

\* runSnippets after runSnippetCursor returned r on the range cur: the catch block
\* when it threw, else the edit is queued and the loop goes on
SnippetCursorDone(r, o) ==
    IF r.status = "throw"
    THEN /\ queue' = CatchSnippetError(queue)
         /\ Leave("snippets", TRUE, FALSE, [o EXCEPT !.threw = TRUE, !.queuedAtThrow = Len(queue)])
         /\ UNCHANGED <<cur, shouldAutoEnlargeBrackets>>
    ELSE /\ queue' = IF r.status = "queued" THEN queueSnippet(queue, r.edit) ELSE queue
         /\ shouldAutoEnlargeBrackets' =
                (shouldAutoEnlargeBrackets \/ (r.status = "queued" /\ r.enlarge))
         /\ cur' = cur + 1
         /\ pc' = IF cur < Len(kd.ranges) THEN "snipCursor" ELSE "snipFlush"
         /\ obs' = IF r.status = "queued"
                   THEN [o EXCEPT !.origins = Append(@, [snippet |-> snippets[r.snippet],
                                                          index |-> r.snippet,
                                                          range |-> kd.ranges[cur],
                                                          edit |-> r.edit])]
                   ELSE o
         /\ UNCHANGED ret

\* runSnippets: one pass of its loop, runSnippetCursor on the range cur
RunSnippetCursor ==
    /\ pc = "snipCursor"
    /\ SnippetCursorDone(runSnippetCursor(snippets, doc, MainPos, kd.key, kd.withinMath, kd.ranges[cur]),
                         [obs EXCEPT !.scanned = Append(@, doc)])
    /\ UNCHANGED <<doc, sel, tabstops, snippets, settings, cursorTriggeredByChange, kd, note, events>>

\* expandSnippets on the state: false and nothing done on an empty queue
Flush ==
    /\ IF queue # <<>> THEN SetView(expandSnippets(View, queue))
       ELSE UNCHANGED <<doc, sel, tabstops, cursorTriggeredByChange>>
    /\ queue' = clearSnippetQueue(queue)

\* runSnippets: expandSnippets after the loop, then on to autoEnlargeBrackets or out
SnippetsFlush ==
    /\ pc = "snipFlush"
    /\ Flush
    /\ LET success == queue # <<>>
           o == [obs EXCEPT !.flushes = Append(@, [h |-> "snippets", scanned |-> Len(obs.scanned)])]
       IN IF shouldAutoEnlargeBrackets
          THEN /\ pc' = "enlarge"
               /\ obs' = [o EXCEPT !.by = "snippets"]
               /\ UNCHANGED ret
          ELSE Leave("snippets", TRUE, success, o)
    /\ UNCHANGED <<snippets, settings, shouldAutoEnlargeBrackets, kd, cur, note, events>>

\* autoEnlargeBrackets up to its expandSnippets: the edits are queued
Enlarge ==
    /\ pc = "enlarge"
    /\ queue' = autoEnlargeBrackets(settings.autoEnlargeBrackets, doc, MainPos)
    /\ pc' = "enlargeFlush"
    /\ UNCHANGED <<doc, sel, tabstops, snippets, settings, cursorTriggeredByChange,
                   shouldAutoEnlargeBrackets, kd, cur, ret, obs, note, events>>

\* autoEnlargeBrackets returning without its expandSnippets
EnlargeWithoutFlush ==
    /\ pc = "enlargeFlush"
    /\ Leave(obs.by, TRUE, TRUE, obs)
    /\ UNCHANGED <<doc, sel, queue, tabstops, cursorTriggeredByChange, snippets, settings,
                   shouldAutoEnlargeBrackets, kd, cur, note, events>>

\* the expandSnippets of autoEnlargeBrackets; the handler that called it succeeded
EnlargeFlush ==
    /\ pc = "enlargeFlush"
    /\ Flush
    /\ Leave(obs.by, TRUE, TRUE, obs)
    /\ UNCHANGED <<snippets, settings, shouldAutoEnlargeBrackets, kd, cur, note, events>>

\* the tabstop step: handleTabstops on Tab or on a closing bracket typed over itself
TabstopsStep ==
    /\ pc = "tabstops"
    /\ LET ran == kd.key = "Tab" \/ shouldTaboutByCloseBracket(doc, sel, kd.key)
           r   == handleTabstops(View)
       IN IF ran
          THEN /\ SetView(r.view)
               /\ Leave("tabstops", TRUE, r.handled,
                        [obs EXCEPT !.terminal = (tabstops # {} /\ MinIndex(tabstops) = MaxIndex(tabstops))])
          ELSE /\ Leave("tabstops", FALSE, FALSE, obs)
               /\ UNCHANGED <<doc, sel, tabstops, cursorTriggeredByChange>>
    /\ UNCHANGED <<queue, snippets, settings, shouldAutoEnlargeBrackets, kd, cur, note, events>>

\* the auto-fraction step: its guard, and the start of runAutoFraction
AutoFractionStep ==
    /\ pc = "autofraction"
    /\ IF settings.autofractionEnabled /\ kd.withinMath /\ kd.key = "/"
       THEN /\ pc' = "fracCursor"
            /\ cur' = 1
            /\ obs' = [obs EXCEPT !.scanned = <<>>]
            /\ UNCHANGED ret
       ELSE /\ Leave("autofraction", FALSE, FALSE, obs)
            /\ UNCHANGED cur
    /\ UNCHANGED <<doc, sel, queue, tabstops, snippets, settings, cursorTriggeredByChange,
                   shouldAutoEnlargeBrackets, kd, note, events>>

\* runAutoFraction: one pass of its loop, runAutoFractionCursor on the range cur
RunAutoFractionCursor ==
    /\ pc = "fracCursor"
    /\ LET r == runAutoFractionCursor(doc, MainPos, kd.ranges[cur])
       IN /\ queue' = IF r.queued THEN queueSnippet(queue, r.edit) ELSE queue
          /\ cur' = cur + 1
          /\ pc' = IF cur < Len(kd.ranges) THEN "fracCursor" ELSE "fracFlush"
          /\ obs' = [obs EXCEPT !.scanned = Append(@, doc)]
    /\ UNCHANGED <<doc, sel, tabstops, snippets, settings, cursorTriggeredByChange,
                   shouldAutoEnlargeBrackets, kd, ret, note, events>>

\* runAutoFraction: expandSnippets after the loop, autoEnlargeBrackets on success
AutoFractionFlush ==
    /\ pc = "fracFlush"
    /\ Flush
    /\ LET success == queue # <<>>
           o == [obs EXCEPT !.flushes = Append(@, [h |-> "autofraction", scanned |-> Len(obs.scanned)])]
       IN IF success
          THEN /\ pc' = "enlarge"
               /\ obs' = [o EXCEPT !.by = "autofraction"]
               /\ UNCHANGED ret
          ELSE Leave("autofraction", TRUE, FALSE, o)
    /\ UNCHANGED <<snippets, settings, shouldAutoEnlargeBrackets, kd, cur, note, events>>

\* the matrix step: runMatrixShortcuts on Tab or Enter inside math
MatrixStep ==
    /\ pc = "matrix"
    /\ LET ran == settings.matrixShortcutsEnabled /\ kd.withinMath /\ kd.key \in {"Tab", "Enter"}
           r   == runMatrixShortcuts(doc, kd.key, kd.shiftKey, kd.pos)
       IN IF ~ran \/ r.kind = "no"
          THEN /\ Leave("matrix", ran, FALSE, obs)
               /\ UNCHANGED <<doc, sel, tabstops, cursorTriggeredByChange>>
          ELSE IF r.kind = "throw"
          THEN \* d.line(nextLineNo) raises: handleKeydown does not return
               /\ pc' = "threw"
               /\ ret' = "throw"
               /\ obs' = [obs EXCEPT !.offered = Append(@, [h |-> "matrix", ran |-> TRUE, handled |-> FALSE])]
               /\ UNCHANGED <<doc, sel, tabstops, cursorTriggeredByChange>>
          ELSE /\ SetView(IF r.kind = "insert" THEN ReplaceSelectionView(View, r.insert)
                          ELSE SetCursorView(View, r.cursor))
               /\ Leave("matrix", TRUE, TRUE, obs)
    /\ UNCHANGED <<queue, snippets, settings, shouldAutoEnlargeBrackets, kd, cur, note, events>>

\* the guard of the tabout step without its feature flag
TaboutGuardKeyOnly(s, key) == key = "Tab"

\* this.settings.taboutEnabled, and key === "Tab"
TaboutGuard(s, key) == s.taboutEnabled /\ key = "Tab"

\* the tabout step, the last: handleKeydown returns what it reports
TaboutStep ==
    /\ pc = "tabout"
    /\ LET ran == TaboutGuard(settings, kd.key)
           r   == tabout(doc, MainPos, kd.withinEquation)
       IN IF ran /\ r.handled
          THEN /\ SetView(RunSteps(View, r.steps, 1))
               /\ Leave("tabout", TRUE, TRUE, obs)
          ELSE /\ Leave("tabout", ran, FALSE, obs)
               /\ UNCHANGED <<doc, sel, tabstops, cursorTriggeredByChange>>
    /\ UNCHANGED <<queue, snippets, settings, shouldAutoEnlargeBrackets, kd, cur, note, events>>

(***************************************************************************)
(* What happens between keystrokes: the user moves the cursor, the text    *)
(* changes outside a handler, the snippet file is reloaded, a command      *)
(* switches the features.                                                  *)
(***************************************************************************)

\* outside handleKeydown its locals are gone, and so is what was observed of it
Forget ==
    /\ kd' = NoKey
    /\ cur' = 0
    /\ ret' = "none"
    /\ obs' = NoObs

\* where the user puts the cursor: the ends of the text and the tabstops
MoveTargets == {0, Len(doc)} \cup {t.from : t \in tabstops}

\* the user moves the cursor: an update with the selection set and no change
UserMoveCursor(p) ==
    /\ Between
    /\ events < MaxEvents
    /\ events' = events + 1
    /\ pc' = "idle"
    /\ LET u == handleUpdate(cursorTriggeredByChange, tabstops, Cursor(p), FALSE, TRUE)
       IN /\ sel' = Cursor(p)
          /\ tabstops' = u.stops
          /\ cursorTriggeredByChange' = u.flag
          /\ note' = [NoNote EXCEPT !.kind = "move", !.outside = ~isInsideATabstop(p, tabstops),
                                     !.stops = tabstops, !.cleared = (u.stops = {})]
    /\ Forget
    /\ UNCHANGED <<doc, queue, snippets, settings, shouldAutoEnlargeBrackets>>

\* the text changes outside a handler, a character inserted at p: typed by the user
\* (the selection is set, after it) or changed by the host (the selection is mapped)
HostChange(p, typed) ==
    /\ Between
    /\ events < MaxEvents
    /\ events' = events + 1
    /\ pc' = "idle"
    /\ LET edits == <<[from |-> p, to |-> p, insert |-> "x", keyPressed |-> ""]>>
           sel1  == IF typed THEN Cursor(p + 1) ELSE MapSelection(sel, edits)
           st1   == MapTabstops(tabstops, edits)
           u     == handleUpdate(cursorTriggeredByChange, st1, sel1, TRUE, typed)
       IN /\ doc' = ApplyEdits(doc, edits)
          /\ sel' = sel1
          /\ tabstops' = u.stops
          /\ cursorTriggeredByChange' = u.flag
          /\ note' = [NoNote EXCEPT !.kind = IF typed THEN "typed" ELSE "changed",
                                     !.stops = tabstops, !.cleared = (u.stops = {})]
    /\ Forget
    /\ UNCHANGED <<queue, snippets, settings, shouldAutoEnlargeBrackets>>

\* a reload that also drops the live tabstop batch
SetSnippetsClearing(f) ==
    /\ Between
    /\ events < MaxEvents
    /\ events' = events + 1
    /\ pc' = "idle"
    /\ snippets' = setSnippets(SnippetSources[f])
    /\ tabstops' = removeAllTabstops(tabstops)
    /\ note' = [NoNote EXCEPT !.kind = "reload", !.stops = tabstops, !.file = f]
    /\ Forget
    /\ UNCHANGED <<doc, sel, queue, settings, cursorTriggeredByChange, shouldAutoEnlargeBrackets>>

\* the snippet definitions are reloaded from file f
SetSnippets(f) ==
    /\ Between
    /\ events < MaxEvents
    /\ events' = events + 1
    /\ pc' = "idle"
    /\ snippets' = setSnippets(SnippetSources[f])
    /\ note' = [NoNote EXCEPT !.kind = "reload", !.stops = tabstops, !.file = f]
    /\ Forget
    /\ UNCHANGED <<doc, sel, queue, tabstops, settings, cursorTriggeredByChange,
                   shouldAutoEnlargeBrackets>>

\* the commands "Enable all features" and "Disable all features"
SetAllFeatures(on) ==
    /\ Between
    /\ events < MaxEvents
    /\ events' = events + 1
    /\ pc' = "idle"
    /\ settings # (IF on THEN AllOn ELSE AllOff)    \* else the command changes nothing
    /\ settings' = IF on THEN AllOn ELSE AllOff
    /\ note' = NoNote
    /\ Forget
    /\ UNCHANGED <<doc, sel, queue, tabstops, snippets, cursorTriggeredByChange,
                   shouldAutoEnlargeBrackets>>

Next ==
    \/ KeyDown
    \/ RunSnippetCursor
    \/ SnippetsFlush
    \/ Enlarge
    \/ EnlargeFlush
    \/ TabstopsStep
    \/ AutoFractionStep
    \/ RunAutoFractionCursor
    \/ AutoFractionFlush
    \/ MatrixStep
    \/ TaboutStep
    \/ \E p \in MoveTargets : UserMoveCursor(p)
    \/ HostChange(MainPos, TRUE)
    \/ HostChange(0, FALSE)
    \/ \E f \in 1..Len(SnippetSources) : SetSnippets(f)
    \/ \E on \in BOOLEAN : SetAllFeatures(on)

Spec == Init /\ [][Next]_vars

(***************************************************************************)
(* autoEnlargeBrackets on its own: it runs on an equation made of bracket  *)
(* tokens, and then once more on the text it left.                         *)
(***************************************************************************)

\* how many tokens the equation holds
MaxTokens == 5

\* what the equations are made of: a bracket pair of the table, a trigger
\* word, and the sizing prefixes
EnlargeTokens == <<"(", ")", "\\sum", "\\left", "\\right">>

\* equations with the other brackets of the table, crossing and nested pairs
EnlargeSamples ==
    { "\\{\\sum\\}", "\\langle\\{\\int\\}\\rangle", "[(\\sum])", "\\left\\lvert\\sum\\rvert",
      "\\lvert\\frac{a}{b}\\right\\rvert", "x(\\frac{(a)}{[b]})+[\\int]", "(a)[\\{\\sum\\}](",
      "\\left[ \\sum \\right]+(\\sum)" }

RECURSIVE TokenStrings(_)
\* the texts of at most n tokens
TokenStrings(n) ==
    IF n = 0 THEN {""}
    ELSE LET shorter == TokenStrings(n - 1)
         IN shorter \cup {t \o EnlargeTokens[k] : t \in shorter, k \in 1..Len(EnlargeTokens)}

InitEnlarge ==
    /\ \E body \in TokenStrings(MaxTokens) \cup EnlargeSamples : doc = "$" \o body \o "$"
    /\ sel \in {Cursor(1), Cursor(Len(doc) - 1)}
    /\ queue = <<>>
    /\ tabstops = {}
    /\ snippets = <<>>
    /\ settings = AllOn
    /\ cursorTriggeredByChange = FALSE
    /\ shouldAutoEnlargeBrackets = TRUE
    /\ pc = "enlarge"
    /\ kd = NoKey
    /\ cur = 0
    /\ ret = "none"
    /\ obs = [NoObs EXCEPT !.by = "snippets", !.doc0 = doc, !.scanned = <<doc>>]
    /\ note = NoNote
    /\ events = 0

\* autoEnlargeBrackets is called once more, on the text the first call left
EnlargeAgain ==
    /\ pc = "done"
    /\ events = 0
    /\ events' = 1
    /\ pc' = "enlarge"
    /\ ret' = "none"
    /\ obs' = [obs EXCEPT !.doc0 = doc, !.stops0 = tabstops, !.offered = <<>>]
    /\ kd' = [kd EXCEPT !.ranges = Reverse(sel.ranges), !.pos = MainPos]
    /\ UNCHANGED <<doc, sel, queue, tabstops, snippets, settings, cursorTriggeredByChange,
                   shouldAutoEnlargeBrackets, cur, note>>

NextEnlarge ==
    \/ Enlarge
    \/ EnlargeFlush
    \/ EnlargeAgain

SpecEnlarge == InitEnlarge /\ [][NextEnlarge]_vars

(***************************************************************************)
(* The claims.                                                             *)
(***************************************************************************)

\* the order handleKeydown offers a key in
HandlerOrder == <<"snippets", "tabstops", "autofraction", "matrix", "tabout">>

NoneHandled == \A i \in 1..Len(obs.offered) : ~obs.offered[i].handled

\* C1: for every key event handleKeydown offers the key to the handlers in the
\* order snippets, tabstops, auto-fraction, matrix shortcuts, tabout; a handler
\* that reports handled is the last one offered and handleKeydown returns true;
\* handleKeydown returns false exactly when no handler reported handled.
C1_DispatchOrder ==
    pc \in {"done", "threw"} =>
        /\ Len(obs.offered) <= Len(HandlerOrder)
        /\ \A i \in 1..Len(obs.offered) : obs.offered[i].h = HandlerOrder[i]
        /\ \A i \in 1..Len(obs.offered) : obs.offered[i].handled => i = Len(obs.offered)
        /\ (ret = "true") <=> ~NoneHandled
        /\ (ret = "false") <=> NoneHandled

\* C2: when matching a cursor raises in the snippet step, then right after that
\* step the queue is empty, the text is the text before the keystroke, the
\* tabstops are those before the keystroke, and nothing was flushed.
C2_AllOrNothing ==
    (obs.threw /\ pc = "tabstops") =>
        /\ queue = <<>>
        /\ doc = obs.doc0
        /\ tabstops = obs.stops0
        /\ obs.flushes = <<>>

\* an edit was queued for one cursor before the matching of a later cursor raised
C2_Witness == obs.threw /\ pc = "tabstops" /\ obs.queuedAtThrow > 0

\* C3: the queue is empty whenever no keystroke is being processed, and is
\* non-empty only between a queueSnippet and the expandSnippets or
\* clearSnippetQueue that follows it.
C3_QueueTransient ==
    /\ Between => queue = <<>>
    /\ queue # <<>> => pc \in {"snipCursor", "snipFlush", "fracCursor", "fracFlush", "enlargeFlush"}

\* a keystroke is over whose auto-fraction and auto-enlarge passes both queued edits
C3_Witness ==
    /\ pc = "done"
    /\ queue = <<>>
    /\ obs.by = "autofraction"
    /\ Contains(doc, "\\left")

\* C4: every cursor of a keystroke is matched against the text before the
\* keystroke, the text is that text as long as cursors are being matched, each of
\* runSnippets and runAutoFraction flushes at most once and only after every
\* cursor was scanned, and does flush once it has scanned them all.
C4_SameSnapshot ==
    /\ \A i \in 1..Len(obs.scanned) : obs.scanned[i] = obs.doc0
    /\ pc \in {"snipCursor", "fracCursor"} => doc = obs.doc0
    /\ \A i \in 1..Len(obs.flushes) : obs.flushes[i].scanned = Len(kd.ranges)
    /\ \A i, j \in 1..Len(obs.flushes) : obs.flushes[i].h = obs.flushes[j].h => i = j
    /\ \A i \in 1..Len(obs.offered) :
          (/\ obs.offered[i].ran
           /\ obs.offered[i].h \in {"snippets", "autofraction"}
           /\ ~(obs.offered[i].h = "snippets" /\ obs.threw))
          => \E j \in 1..Len(obs.flushes) : obs.flushes[j].h = obs.offered[i].h

\* the spans of two edits share no character
Disjoint(e1, e2) == e1.to <= e2.from \/ e2.to <= e1.from

\* a keystroke with two cursors, which queued an edit each, apart from one
\* another, has been flushed
C4_Witness ==
    /\ pc = "done"
    /\ Len(kd.ranges) = 2
    /\ Len(obs.origins) = 2
    /\ Disjoint(obs.origins[1].edit, obs.origins[2].edit)
    /\ Len(obs.flushes) = 1
    /\ doc # obs.doc0

\* C5: at every flush the edits of the queue have pairwise non-overlapping spans.
C5_NoOverlap ==
    pc \in {"snipFlush", "fracFlush", "enlargeFlush"} =>
        \A i, j \in 1..Len(queue) : i < j => Disjoint(queue[i], queue[j])

\* C6: a cursor movement of the user's to a position outside every live tabstop
\* clears the batch, whatever notifications came before; a cursor movement that
\* comes with a change of the text never clears it.
C6_UserMoveClears ==
    /\ (note.kind = "move" /\ note.stops # {} /\ note.outside) => note.cleared
    /\ (note.kind = "typed" /\ note.stops # {}) => ~note.cleared

\* C7: when the tabstop step runs with the terminal tabstop occupied, the batch
\* is cleared and stays so for the keystroke, the selection is not moved by the
\* step, the step reports not handled, and the key goes on to auto-fraction,
\* matrix shortcuts and tabout in that order until one of them handles it.
C7_TerminalTabstop ==
    obs.terminal =>
        /\ tabstops = {}
        /\ Len(obs.offered) >= 2
        /\ obs.offered[2] = [h |-> "tabstops", ran |-> TRUE, handled |-> FALSE]
        /\ pc \notin {"idle", "snipCursor", "snipFlush", "tabstops", "threw"}
        /\ pc = "autofraction" => sel.ranges = Reverse(kd.ranges)
        /\ pc = "done" =>
              /\ Len(obs.offered) >= 3
              /\ \A i \in 3..Len(obs.offered) : obs.offered[i].h = HandlerOrder[i]
              /\ Len(obs.offered) = Len(HandlerOrder) \/ obs.offered[Len(obs.offered)].handled

\* Tab on the terminal tabstop fell through the tabstop step to tabout
C7_Witness ==
    /\ obs.terminal
    /\ pc = "done"
    /\ kd.key = "Tab"
    /\ obs.stops0 # {}
    /\ Len(obs.offered) = Len(HandlerOrder)

\* the repository is the well-formed definitions of file f, longer triggers first
IsRepositoryOf(f) ==
    /\ Len(snippets) = Cardinality({k \in 1..Len(SnippetSources[f]) : SnippetSources[f][k].trigger # ""})
    /\ \A k \in 1..Len(SnippetSources[f]) :
          SnippetSources[f][k].trigger # "" => \E i \in 1..Len(snippets) : snippets[i] = SnippetSources[f][k]
    /\ \A i, j \in 1..Len(snippets) : i < j => Len(snippets[i].trigger) >= Len(snippets[j].trigger)

\* C8, as stated: after a reload the repository is that of the file loaded and
\* no tabstop is live.
C8_ReloadClears ==
    note.kind = "reload" => (IsRepositoryOf(note.file) /\ tabstops = {})

\* C8, amended: after a reload the repository is that of the file loaded, and
\* the tabstop batch is the one that was live before the reload.
C8_ReloadKeepsTabstops ==
    note.kind = "reload" => (IsRepositoryOf(note.file) /\ tabstops = note.stops)

\* a reload happened with a tabstop batch live, and the batch is live after it
C8_Witness == note.kind = "reload" /\ note.stops # {} /\ tabstops # {}

\* the snippet is neither regex-flagged nor visual
IsLiteral(snippet) == ~Contains(snippet.options, "r") /\ ~Contains(snippet.replacement, "${VISUAL}")

\* the literal snippet is one Tab expands at the empty cursor of range: the text
\* before the cursor ends with its trigger and none of its flags holds it back
FiresOnTab(snippet, range) ==
    /\ IsLiteral(snippet)
    /\ ~Contains(snippet.options, "A")
    /\ ~Contains(snippet.options, "w")
    /\ Contains(snippet.options, "m") => kd.withinMath
    /\ Contains(snippet.options, "t") => ~kd.withinMath
    /\ ~IsExcluded(obs.doc0, range.to, snippet.trigger)
    /\ EndsWith(SliceDoc(obs.doc0, 0, range.to), snippet.trigger)

\* the cursors whose matching came to its end without raising
Matched == 1..(Len(obs.scanned) - (IF obs.threw THEN 1 ELSE 0))

\* C9: an edit queued on Tab for an empty cursor by a non-regex, non-visual
\* snippet ends at the cursor, starts the trigger's length before it, spans the
\* trigger's characters and inserts the replacement; and an edit is queued for
\* every empty cursor the text before which ends with the trigger of such a snippet.
C9_LiteralSpan ==
    /\ \A i \in 1..Len(obs.origins) :
          (/\ kd.key = "Tab"
           /\ IsLiteral(obs.origins[i].snippet)
           /\ obs.origins[i].range.from = obs.origins[i].range.to)
          => /\ obs.origins[i].edit.to = obs.origins[i].range.to
             /\ obs.origins[i].edit.from = obs.origins[i].range.to - Len(obs.origins[i].snippet.trigger)
             /\ SliceDoc(obs.doc0, obs.origins[i].edit.from, obs.origins[i].edit.to)
                    = obs.origins[i].snippet.trigger
             /\ obs.origins[i].edit.insert
                    = RemoveWhitespace(obs.origins[i].snippet.replacement, kd.withinMath, obs.doc0, kd.pos)
    /\ kd.key = "Tab" =>
          \A c \in Matched :
              (/\ kd.ranges[c].from = kd.ranges[c].to
               /\ \E k \in 1..Len(snippets) : FiresOnTab(snippets[k], kd.ranges[c]))
              => \E i \in 1..Len(obs.origins) : obs.origins[i].range = kd.ranges[c]

\* Tab expanded a literal snippet at an empty cursor
C9_Witness ==
    /\ pc = "done"
    /\ kd.key = "Tab"
    /\ \E i \in 1..Len(obs.origins) :
          /\ IsLiteral(obs.origins[i].snippet)
          /\ obs.origins[i].range.from = obs.origins[i].range.to

RECURSIVE ReplaceEveryFrom(_, _, _, _)
\* s with every occurrence of pat from offset i on replaced by the text repl as it is
ReplaceEveryFrom(s, pat, repl, i) ==
    IF i >= Len(s) THEN ""
    ELSE IF StartsAt(s, i, pat) THEN repl \o ReplaceEveryFrom(s, pat, repl, i + Len(pat))
    ELSE CharAt(s, i) \o ReplaceEveryFrom(s, pat, repl, i + 1)

RECURSIVE CapturesPlaced(_, _, _)
\* the template with every [[i-1]] replaced by the text group i captured
CapturesPlaced(template, groups, i) ==
    IF i > Len(groups) THEN template
    ELSE CapturesPlaced(ReplaceEveryFrom(template, "[[" \o CharAt(Digits, i - 1) \o "]]", groups[i], 0),
                        groups, i + 1)

\* what the trigger of a fired regex snippet matched: the text up to the cursor,
\* with the key appended for an any-character snippet
MatchOf(origin) ==
    RegExpExec(insertSnippetVariables(origin.snippet.trigger) \o "$",
               IF Contains(origin.snippet.options, "A")
               THEN SliceDoc(obs.doc0, 0, origin.range.to) \o kd.key
               ELSE SliceDoc(obs.doc0, 0, origin.range.to))

\* the edit of a fired regex snippet is the one its match m calls for
CapturesEdit(origin, m) ==
    /\ m.status = "match"
    /\ origin.edit.from = m.index
    /\ origin.edit.to = origin.range.to
    /\ origin.edit.insert
           = RemoveWhitespace(CapturesPlaced(origin.snippet.replacement, m.groups, 1),
                              kd.withinMath, obs.doc0, kd.pos)

\* C10: an edit queued by a regex-flagged snippet starts at the offset of the
\* match, ends at the cursor, and inserts the template with every [[i-1]]
\* replaced by the text group i captured.
C10_CaptureSubstitution ==
    \A i \in 1..Len(obs.origins) :
        (/\ Contains(obs.origins[i].snippet.options, "r")
         /\ ~Contains(obs.origins[i].snippet.replacement, "${VISUAL}"))
        => CapturesEdit(obs.origins[i], MatchOf(obs.origins[i]))

\* c is a character of the word-delimiter set
IsWordDelimiter(c) == Len(c) = 1 /\ Contains(wordDelimiters, c)

\* C11, as stated: an edit queued by a w-flagged snippet has a word delimiter
\* as the character right before its span and as the character right after the
\* cursor.
C11_WordBoundary ==
    \A i \in 1..Len(obs.origins) :
        Contains(obs.origins[i].snippet.options, "w")
        => /\ IsWordDelimiter(CharAt(obs.doc0, obs.origins[i].edit.from - 1))
           /\ IsWordDelimiter(CharAt(obs.doc0, obs.origins[i].range.to))

\* the w-flagged literal snippet is one Tab expands at the empty cursor of range
\* when its neighbours allow it
WordFiresOnTab(snippet, range) ==
    /\ IsLiteral(snippet)
    /\ Contains(snippet.options, "w")
    /\ ~Contains(snippet.options, "A")
    /\ Contains(snippet.options, "m") => kd.withinMath
    /\ Contains(snippet.options, "t") => ~kd.withinMath
    /\ ~IsExcluded(obs.doc0, range.to, snippet.trigger)
    /\ EndsWith(SliceDoc(obs.doc0, 0, range.to), snippet.trigger)
    /\ range.to - Len(snippet.trigger) = 0
           \/ IsWordDelimiter(CharAt(obs.doc0, range.to - Len(snippet.trigger) - 1))
    /\ range.to = Len(obs.doc0) \/ IsWordDelimiter(CharAt(obs.doc0, range.to))

\* C11, amended: an edit queued by a w-flagged snippet has, right before its
\* span, a word delimiter or the start of the text, and right after the cursor a
\* word delimiter or the end of the text; and on Tab an edit is queued for every
\* empty cursor at which a w-flagged literal snippet stands between such neighbours.
C11_WordBoundaryOrEdge ==
    /\ \A i \in 1..Len(obs.origins) :
          Contains(obs.origins[i].snippet.options, "w")
          => /\ obs.origins[i].edit.from = 0
                \/ IsWordDelimiter(CharAt(obs.doc0, obs.origins[i].edit.from - 1))
             /\ obs.origins[i].range.to = Len(obs.doc0)
                \/ IsWordDelimiter(CharAt(obs.doc0, obs.origins[i].range.to))
    /\ kd.key = "Tab" =>
          \A c \in Matched :
              (/\ kd.ranges[c].from = kd.ranges[c].to
               /\ \E k \in 1..Len(snippets) : WordFiresOnTab(snippets[k], kd.ranges[c]))
              => \E i \in 1..Len(obs.origins) : obs.origins[i].range = kd.ranges[c]

\* Tab expanded a w-flagged snippet standing between two word delimiters
C11_Witness ==
    /\ pc = "done"
    /\ \E i \in 1..Len(obs.origins) :
          /\ Contains(obs.origins[i].snippet.options, "w")
          /\ IsWordDelimiter(CharAt(obs.doc0, obs.origins[i].edit.from - 1))
          /\ IsWordDelimiter(CharAt(obs.doc0, obs.origins[i].range.to))

\* the snippet is a visual one
IsVisual(snippet) == Contains(snippet.replacement, "${VISUAL}")

\* the edit of a fired snippet is the one the claim gives for the selected text
\* selected: the span of the selection, the template with the text in place of
\* ${VISUAL}
VisualEdit(origin, selected) ==
    /\ selected # ""
    /\ EndsWith(SliceDoc(obs.doc0, 0, origin.range.to) \o kd.key,
                insertSnippetVariables(origin.snippet.trigger))
    /\ origin.edit.from = origin.range.from
    /\ origin.edit.to = origin.range.to
    /\ origin.edit.insert
           = RemoveWhitespace(ReplaceEveryFrom(origin.snippet.replacement, "${VISUAL}", selected, 0),
                              kd.withinMath, obs.doc0, kd.pos)

\* C12: an edit queued by a visual snippet belongs to a cursor with a non-empty
\* selection whose text up to the cursor, with the key, ends with the trigger; it
\* spans the selection and inserts the template with ${VISUAL} replaced by the
\* selected text as it is; an edit queued by any other snippet belongs to a
\* cursor with an empty selection.
C12_VisualVerbatim ==
    \A i \in 1..Len(obs.origins) :
        IF IsVisual(obs.origins[i].snippet)
        THEN VisualEdit(obs.origins[i],
                        SliceDoc(obs.doc0, obs.origins[i].range.from, obs.origins[i].range.to))
        ELSE obs.origins[i].range.from = obs.origins[i].range.to

\* the offset p of the text lies within math: inside an equation and neither in
\* \text{} nor in \tag{}
LiesWithinMath(text, p) ==
    /\ isWithinEquation(text, p)
    /\ ~isInsideEnvironment(text, p, [openSymbol |-> "\\text{", closeSymbol |-> "}"])
    /\ ~isInsideEnvironment(text, p, [openSymbol |-> "\\tag{", closeSymbol |-> "}"])

\* C13: an edit queued by a snippet with option m belongs to a cursor that lies
\* within math, and an edit queued by a snippet with option t to a cursor that
\* lies outside math, for every cursor of the keystroke.
C13_ScopePerCursor ==
    \A i \in 1..Len(obs.origins) :
        /\ Contains(obs.origins[i].snippet.options, "m")
              => LiesWithinMath(obs.doc0, obs.origins[i].range.to)
        /\ Contains(obs.origins[i].snippet.options, "t")
              => ~LiesWithinMath(obs.doc0, obs.origins[i].range.to)

\* the snippet is any-character-triggered: option A, or visual
IsAnyCharacter(snippet) == Contains(snippet.options, "A") \/ IsVisual(snippet)

\* the trigger of the fired snippet matches the end of line, and the edit
\* starts where that match starts
TriggerMatches(origin, line) ==
    IF IsVisual(origin.snippet)
    THEN EndsWith(line, insertSnippetVariables(origin.snippet.trigger))
    ELSE IF Contains(origin.snippet.options, "r")
    THEN /\ RegExpExec(insertSnippetVariables(origin.snippet.trigger) \o "$", line).status = "match"
         /\ RegExpExec(insertSnippetVariables(origin.snippet.trigger) \o "$", line).index
                = origin.edit.from
    ELSE /\ EndsWith(line, insertSnippetVariables(origin.snippet.trigger))
         /\ origin.edit.from = Len(line) - Len(insertSnippetVariables(origin.snippet.trigger))

\* C14: an edit queued by an any-character snippet (option A, or visual) comes
\* from a key of one character and from a match of the trigger against the text
\* up to the cursor with that character appended; an edit queued by any other
\* snippet comes from the key Tab and from a match against the text up to the
\* cursor as it is.
C14_EffectiveLine ==
    \A i \in 1..Len(obs.origins) :
        IF IsAnyCharacter(obs.origins[i].snippet)
        THEN /\ Len(kd.key) = 1
             /\ TriggerMatches(obs.origins[i],
                               SliceDoc(obs.doc0, 0, obs.origins[i].range.to) \o kd.key)
        ELSE /\ kd.key = "Tab"
             /\ TriggerMatches(obs.origins[i], SliceDoc(obs.doc0, 0, obs.origins[i].range.to))

\* a keystroke of one character expanded an any-character snippet whose trigger
\* ends with that character
C14_Witness ==
    /\ pc = "done"
    /\ Len(kd.key) = 1
    /\ \E i \in 1..Len(obs.origins) :
          /\ Contains(obs.origins[i].snippet.options, "A")
          /\ ~IsVisual(obs.origins[i].snippet)
          /\ ~EndsWith(SliceDoc(obs.doc0, 0, obs.origins[i].range.to), obs.origins[i].snippet.trigger)

\* the trigger of the snippet matches the end of line and, for a w-flagged
\* snippet, the match stands between word delimiters or ends of the text
MatchesAt(snippet, trigger, line, range) ==
    IF IsVisual(snippet) \/ ~Contains(snippet.options, "r")
    THEN /\ EndsWith(line, trigger)
         /\ Contains(snippet.options, "w") =>
                LET start == IF IsVisual(snippet) THEN range.from ELSE Len(line) - Len(trigger)
                IN /\ start = 0 \/ IsWordDelimiter(CharAt(obs.doc0, start - 1))
                   /\ range.to = Len(obs.doc0) \/ IsWordDelimiter(CharAt(obs.doc0, range.to))
    ELSE /\ RegExpExec(trigger \o "$", line).status = "match"
         /\ Contains(snippet.options, "w") =>
                LET start == RegExpExec(trigger \o "$", line).index
                IN /\ start = 0 \/ IsWordDelimiter(CharAt(obs.doc0, start - 1))
                   /\ range.to = Len(obs.doc0) \/ IsWordDelimiter(CharAt(obs.doc0, range.to))

\* the snippet passes every check of this keystroke at the cursor of range: its
\* scope, the key, its excluded environment, the selection, its trigger
PassesAllChecks(snippet, range) ==
    /\ Contains(snippet.options, "m") => kd.withinMath
    /\ Contains(snippet.options, "t") => ~kd.withinMath
    /\ IF IsAnyCharacter(snippet) THEN Len(kd.key) = 1 ELSE kd.key = "Tab"
    /\ ~IsExcluded(obs.doc0, range.to, snippet.trigger)
    /\ IsVisual(snippet) <=> range.from # range.to
    /\ MatchesAt(snippet, insertSnippetVariables(snippet.trigger),
                 IF IsAnyCharacter(snippet) THEN SliceDoc(obs.doc0, 0, range.to) \o kd.key
                 ELSE SliceDoc(obs.doc0, 0, range.to),
                 range)

\* the edit queued for one cursor is that of the first snippet of the
\* repository that passes every check at that cursor
FirstPassing(origin) ==
    /\ snippets[origin.index] = origin.snippet
    /\ PassesAllChecks(origin.snippet, origin.range)
    /\ \A k \in 1..(origin.index - 1) : ~PassesAllChecks(snippets[k], origin.range)
    /\ origin.snippet.trigger = ">" =>
          ~\E k \in 1..Len(snippets) :
              snippets[k].trigger = "=>" /\ PassesAllChecks(snippets[k], origin.range)

\* C15: no two queued edits of a keystroke belong to the same cursor; while the
\* cursors are scanned, up to the flush, the queue holds one edit for each
\* cursor that queued, the snippet of a queued edit passes every check and no
\* snippet before it in the repository does, no edit is queued by the snippet
\* ">" at a cursor where the snippet "=>" passes every check, and a scanned
\* cursor at which some snippet passes every check has an edit queued; the
\* repository holds longer triggers before shorter ones.
C15_FirstMatchWins ==
    /\ \A i, j \in 1..Len(obs.origins) : obs.origins[i].range = obs.origins[j].range => i = j
    /\ pc \in {"snipCursor", "snipFlush"} =>
          /\ Len(queue) = Len(obs.origins)
          /\ \A i \in 1..Len(queue) : queue[i] = obs.origins[i].edit
          /\ \A i \in 1..Len(obs.origins) : FirstPassing(obs.origins[i])
          /\ \A c \in Matched :
                (\E k \in 1..Len(snippets) : PassesAllChecks(snippets[k], kd.ranges[c]))
                => \E i \in 1..Len(obs.origins) : obs.origins[i].range = kd.ranges[c]
    /\ \A i \in 1..(Len(snippets) - 1) :
          Len(snippets[i].trigger) >= Len(snippets[i + 1].trigger)

\* the snippet "=>" was expanded at a cursor where the snippet ">" passes every
\* check as well
C15_Witness ==
    /\ pc = "snipFlush"
    /\ \E i \in 1..Len(obs.origins) :
          /\ obs.origins[i].snippet.trigger = "=>"
          /\ \E k \in 1..Len(snippets) :
                /\ snippets[k].trigger = ">"
                /\ k > obs.origins[i].index
                /\ PassesAllChecks(snippets[k], obs.origins[i].range)

\* the keystroke is "/" at the single empty cursor right after "(a+b)" in the
\* equation "$(a+b)$", with auto-fraction enabled
FractionCase ==
    /\ obs.doc0 = "$(a+b)$"
    /\ kd.key = "/"
    /\ kd.ranges = <<[from |-> 6, to |-> 6]>>
    /\ settings.autofractionEnabled

\* C16: in that case the one edit queued replaces "(a+b)" by \frac{a+b}{} with
\* a tabstop in the denominator and one after the fraction; from the flush on,
\* the auto-enlarge pass and the end of the keystroke included, the text is
\* "$\frac{a+b}{}$", the tabstops are inside the denominator braces and right
\* after the fraction, and the cursor is inside the denominator braces; the key
\* is reported handled, by auto-fraction.
C16_AutoFraction ==
    FractionCase =>
        /\ pc = "fracFlush" =>
              queue = <<[from |-> 1, to |-> 6, insert |-> "\\frac{a+b}{$0}$1", keyPressed |-> "/"]>>
        /\ pc \in {"enlarge", "enlargeFlush", "done"} =>
              /\ doc = "$\\frac{a+b}{}$"
              /\ tabstops = {[index |-> 0, from |-> 12, to |-> 12], [index |-> 1, from |-> 13, to |-> 13]}
              /\ sel.ranges = <<[from |-> 12, to |-> 12]>>
              /\ SliceDoc(doc, 11, 13) = "{}"
        /\ pc = "enlargeFlush" => queue = <<>>
        /\ pc = "done" =>
              /\ ret = "true"
              /\ obs.offered[Len(obs.offered)] = [h |-> "autofraction", ran |-> TRUE, handled |-> TRUE]

\* the keystroke of that case is over
C16_Witness == FractionCase /\ pc = "done" /\ obs.by = "autofraction"

\* C17: when autoEnlargeBrackets runs again on the text it left, with the cursor
\* in the equation, it queues no edit, and the text, the selection and the
\* tabstops after it are those before it.
C17_EnlargeIdempotent ==
    events = 1 =>
        /\ pc = "enlargeFlush" => queue = <<>>
        /\ doc = obs.doc0
        /\ sel.ranges = Reverse(kd.ranges)
        /\ tabstops = obs.stops0

\* the first run wrapped a pair in \left and \right, and the second run is over
C17_Witness ==
    /\ events = 1
    /\ pc = "done"
    /\ obs.scanned[1] # doc
    /\ Contains(doc, "\\left( \\sum \\right)")

\* the closing delimiter of tabout that starts at offset c of the text, "" when
\* none does
CloserAt(text, c) ==
    IF CharAt(text, c) \in {"}", ")", "]", ">", "|"} THEN CharAt(text, c)
    ELSE IF StartsAt(text, c, "\\rangle") THEN "\\rangle"
    ELSE ""

\* the delimiter that opens what close closes; | opens and closes alike
OpenerOf(close) ==
    CASE close = ")" -> "("
      [] close = "]" -> "["
      [] close = "}" -> "{"
      [] close = ">" -> "<"
      [] close = "\\rangle" -> "\\langle"
      [] OTHER -> ""

\* a closing delimiter starts at c, and the delimiter that opens its pair does
\* not lie between pos and c
IsUnmatchedCloser(text, pos, c) ==
    /\ CloserAt(text, c) # ""
    /\ \/ OpenerOf(CloserAt(text, c)) = ""
       \/ MatchBackward(text, c, OpenerOf(CloserAt(text, c)), CloserAt(text, c), 0) < pos

\* tabout handled the key by a move of the cursor within the math region
TaboutWithinRegion ==
    /\ pc = "done"
    /\ obs.offered[Len(obs.offered)] = [h |-> "tabout", ran |-> TRUE, handled |-> TRUE]
    /\ MainPos <= getEquationBounds(obs.doc0, kd.pos).end

\* C18: when tabout moves the cursor within the math region, the cursor ends up
\* just past the first closing delimiter at or after where it was whose opening
\* delimiter does not lie between that place and it.
C18_TaboutUnmatched ==
    TaboutWithinRegion =>
        \E c \in kd.pos..(MainPos - 1) :
            /\ IsUnmatchedCloser(obs.doc0, kd.pos, c)
            /\ MainPos = c + Len(CloserAt(obs.doc0, c))
            /\ \A b \in kd.pos..(c - 1) : ~IsUnmatchedCloser(obs.doc0, kd.pos, b)

\* tabout was reached by Tab with the feature on, the cursor at pos in a math
\* region that ends at end
TaboutRan(pos, end) ==
    /\ pc = "done"
    /\ Len(obs.offered) = Len(HandlerOrder)
    /\ obs.offered[Len(obs.offered)].ran
    /\ kd.pos = pos
    /\ getEquationBounds(obs.doc0, pos).ok
    /\ getEquationBounds(obs.doc0, pos).end = end

\* a closing delimiter of tabout starts between pos and end
HasCloser(text, pos, end) == \E c \in pos..(end - 1) : CloserAt(text, c) # ""

\* nothing but white space stands between pos and end, and what stands at end is
\* not $$
AtInlineEnd(text, pos, end) ==
    /\ \A c \in pos..(end - 1) : CharAt(text, c) \in {" ", "\n"}
    /\ SliceDoc(text, end, end + 2) # "$$"

\* C19: when tabout is reached with a closing delimiter ahead in the region, or
\* with the cursor at the end of a region that a single $ closes, it reports
\* handled, the cursor moves (past the delimiter, or to just after the $), and
\* the text stays as it was; so for "$x+1$" with the cursor at offset 4 the
\* cursor ends at offset 5 and the text is "$x+1$".
C19_TaboutKeepsText ==
    (/\ pc = "done"
     /\ Len(obs.offered) = Len(HandlerOrder))
    => \A end \in kd.pos..Len(obs.doc0) :
        (/\ TaboutRan(kd.pos, end)
         /\ HasCloser(obs.doc0, kd.pos, end) \/ AtInlineEnd(obs.doc0, kd.pos, end))
        => /\ ret = "true"
           /\ obs.offered[Len(obs.offered)].handled
           /\ doc = obs.doc0
           /\ sel.ranges = <<[from |-> MainPos, to |-> MainPos]>>
           /\ MainPos > kd.pos
           /\ ~HasCloser(obs.doc0, kd.pos, end) => MainPos = end + 1
           /\ (obs.doc0 = "$x+1$" /\ kd.pos = 4) => (MainPos = 5 /\ doc = "$x+1$")

\* Tab took the cursor out of "$x+1$" from just before the closing $
C19_Witness ==
    /\ TaboutRan(4, 4)
    /\ obs.doc0 = "$x+1$"
    /\ MainPos = 5

\* C20: handleKeydown never raises: every key event ends with true or false
\* returned.
C20_NeverRaises == pc # "threw" /\ ret # "throw"

RECURSIVE ParenBalancedFrom(_, _, _)
\* the parentheses of s from offset i on close what is open, depth of them being
\* open before i, and none closes what was never opened
ParenBalancedFrom(s, i, depth) ==
    IF i >= Len(s) THEN depth = 0
    ELSE IF CharAt(s, i) = "(" THEN ParenBalancedFrom(s, i + 1, depth + 1)
    ELSE IF CharAt(s, i) = ")" THEN depth > 0 /\ ParenBalancedFrom(s, i + 1, depth - 1)
    ELSE ParenBalancedFrom(s, i + 1, depth)

ParenBalanced(s) == ParenBalancedFrom(s, 0, 0)

\* the first character of s is a "(" and the last the ")" that matches it
EnclosingPair(s) ==
    /\ Len(s) >= 2
    /\ CharAt(s, 0) = "(" /\ CharAt(s, Len(s) - 1) = ")"
    /\ ParenBalanced(JSSlice(s, 1, -1))

\* the text an auto-fraction edit places inside \frac{...}
FracInside(edit) ==
    SliceDoc(edit.insert, Len("\\frac{"), Len(edit.insert) - Len("}{$0}$1"))

\* whole is the numerator found and inside the text placed inside \frac{...}
StripsEnclosingPairOnly(whole, inside) ==
    /\ inside = (IF EnclosingPair(whole) THEN JSSlice(whole, 1, -1) ELSE whole)
    /\ ParenBalanced(whole) => ParenBalanced(inside)

\* C21: when auto-fraction has queued its edits, each edit is \frac{...}{$0}$1
\* whose first braces hold the numerator found, without its first and last
\* character exactly when these are a "(" and the ")" that matches it; a
\* numerator with balanced parentheses gives a text inside \frac{...} with
\* balanced parentheses.
C21_StripsEnclosingPair ==
    pc = "fracFlush" =>
        \A k \in 1..Len(queue) :
            /\ StartsAt(queue[k].insert, 0, "\\frac{")
            /\ EndsWith(queue[k].insert, "}{$0}$1")
            /\ StripsEnclosingPairOnly(SliceDoc(obs.doc0, queue[k].from, queue[k].to),
                                       FracInside(queue[k]))

\* a keystroke is under way or over, and no host event came after it
InKeystroke == pc # "idle"

\* the key is Tab, or a closing bracket equal to the character at the cursor
ReachesTabstops ==
    \/ kd.key = "Tab"
    \/ kd.key \in {")", "]", "}"} /\ CharAt(obs.doc0, kd.pos) = kd.key

\* C22: in a keystroke with the five feature flags all false, no edit is queued
\* and the text stays as it was; handleKeydown does not raise and is at no step
\* of snippets, auto-fraction or auto-enlarge; the only handler that runs is
\* tabstop consumption, and it runs only on Tab or on a closing bracket equal to
\* the character at the cursor; the key is reported handled only by tabstop
\* consumption with a batch live before the key, and with no batch live the
\* tabstops stay none and false is returned.
C22_DisabledOnlyTabstops ==
    (settings = AllOff /\ InKeystroke) =>
        /\ queue = <<>>
        /\ doc = obs.doc0
        /\ pc \in {"tabstops", "autofraction", "matrix", "tabout", "done"}
        /\ \A i \in 1..Len(obs.offered) :
              /\ obs.offered[i].ran => (obs.offered[i].h = "tabstops" /\ ReachesTabstops)
              /\ obs.offered[i].handled => (obs.offered[i].ran /\ obs.stops0 # {})
        /\ obs.stops0 = {} => tabstops = {}
        /\ pc = "done" =>
              /\ ret \in {"true", "false"}
              /\ ret = "true" <=> (\E i \in 1..Len(obs.offered) : obs.offered[i].handled)
              /\ obs.stops0 = {} => ret = "false"

\* with every feature off, a key was reported handled by tabstop consumption,
\* on a batch made before the features were switched off
C22_Witness ==
    /\ settings = AllOff
    /\ pc = "done"
    /\ ret = "true"
    /\ obs.stops0 # {}
    /\ obs.offered = <<[h |-> "snippets", ran |-> FALSE, handled |-> FALSE],
                       [h |-> "tabstops", ran |-> TRUE, handled |-> TRUE]>>

====
